---- MODULE Spec2Model ----
(***************************************************************************)
(* Model of the recipe-extraction backend (server/app):                    *)
(*   - services/transcript.py  get_transcript_with_fallback and its cache  *)
(*   - services/youtube.py     extract_youtube_video_id, captions API      *)
(*   - services/video_metadata.py  get_video_metadata                      *)
(*   - main.py                 the /api/extract route                      *)
(*   - services/llm.py         call_llm_for_recipe (retry loop)            *)
(*   - schemas/__init__.py     RecipeLLMOutput, Evidence, Step validation  *)
(*   - services/llm.py         _clean_model_text, the parse and repair     *)
(*                             stage, _normalize_llm_output                *)
(*   - services/stt.py         transcribe_audio_google (chunked audio)     *)
(*   - services/ask_ai.py      answer_recipe_question                      *)
(*                                                                         *)
(* Optional values (Python None) are sequences: <<>> is None, <<x>> is x.  *)
(***************************************************************************)
EXTENDS Integers, Sequences, FiniteSets, TLC

VARIABLES settings, transcript_cache, req, llm, fn, stt

vars == <<settings, transcript_cache, req, llm, fn, stt>>

None == <<>>
Some(x) == <<x>>

\* ------------------------------------------------------------------ bounds
\* number of get_transcript_with_fallback calls made in a process lifetime;
\* any of them may overlap
NumReqs == 2
\* largest max_retries argument explored for call_llm_for_recipe
MaxRetriesBound == 2
\* longest ingredient list in a model response
MaxIngredients == 1
\* largest timestamp, in seconds, in a model response
MaxSec == 2
\* deepest nesting of arrays and objects inside the object of a model
\* response
MaxDepth == 2
\* most characters a response loses at its end
MaxCut == 3
\* most chunks an audio file is cut into
MaxChunks == 3
\* chunks of a long audio file beyond the workers of the pool
ExtraChunks == 1

Reqs == 1..NumReqs

\* ------------------------------------------------------------------ URLs
\* A URL after urlparse: netloc, path segments, query pairs in order.
Url(n, p, q) == [netloc |-> n, path |-> p, query |-> q]

UrlWatchA  == Url("www.youtube.com", <<"watch">>, <<<<"v", "a">>>>)
UrlWatchAT == Url("www.youtube.com", <<"watch">>, <<<<"v", "a">>, <<"t", "42s">>>>)
UrlShortA  == Url("youtu.be", <<"a">>, <<>>)
UrlShortsB == Url("www.youtube.com", <<"shorts", "b">>, <<>>)
UrlNoId    == Url("www.youtube.com", <<"playlist">>, <<<<"list", "x">>>>)

Urls == {UrlWatchA, UrlWatchAT, UrlShortsB, UrlNoId}

\* parse_qs: pairs with a blank value are dropped
parse_qs(query) == SelectSeq(query, LAMBDA kv : kv[2] # "")

QsValues(query, key) == SelectSeq(parse_qs(query), LAMBDA kv : kv[1] = key)

ShortHosts == {"youtu.be", "www.youtu.be"}
YoutubeHosts == {"youtube.com", "www.youtube.com", "m.youtube.com"}

\* A video id is the sequence of its "/"-separated parts; None when absent.
extract_youtube_video_id(url) ==
    IF url.netloc \in ShortHosts
    THEN url.path
    ELSE IF QsValues(url.query, "v") # <<>>
         THEN <<QsValues(url.query, "v")[1][2]>>
         ELSE IF url.netloc \in YoutubeHosts /\ Len(url.path) >= 2
                 /\ url.path[1] = "shorts"
              THEN IF url.path[2] # "" THEN <<url.path[2]>> ELSE None
              ELSE None

VideoIds == {extract_youtube_video_id(u) : u \in Urls} \ {None}

\* --------------------------------------------------------- external world
\* Content of a video is stable; availability of a provider is not: any
\* call may fail (platform blocking, network error, timeout).

\* yt-dlp --skip-download run: process error, timeout/other exception,
\* no .vtt written, a .vtt whose text is empty, a .vtt with text
YtdlpOutcomes == {"proc_error", "exception", "no_vtt", "empty_vtt", "vtt"}

\* youtube-transcript-api: raises, yields only whitespace chunks, yields text
ApiOutcomes == {"raise", "blank", "segments"}

\* yt-dlp --dump-json run
MediaInfoOutcomes == {"nonzero_exit", "timeout", "bad_json",
                      "no_title_key", "null_title", "empty_title", "titled"}

\* yt-dlp --extract-audio run; the size of the file gives the estimate
DownloadOutcomes == {"fail", "no_file", "short_file", "long_file"}

\* speech-to-text call
SttOutcomes == {"raise", "empty", "text"}

\* whether the video publishes a description
HasDescription(url) == extract_youtube_video_id(url) = <<"a">>

\* ---------------------------------------------------------- collaborators
\* get_captions_via_ytdlp: plain text or None; never raises
get_captions_via_ytdlp(url, out) ==
    IF out = "vtt" THEN Some(<<"vtt", extract_youtube_video_id(url)>>)
    ELSE None

\* the temporary directory of get_captions_via_ytdlp when the call is over:
\* every return, in the try block and in its handlers, passes the finally
ytdlp_temp_dir(out) ==
    LET temp_dir_obj == "live" IN
    IF temp_dir_obj # "none" THEN "released" ELSE "none"

\* get_youtube_transcript: [raised, text, segments]
get_youtube_transcript(url, out) ==
    LET video_id == extract_youtube_video_id(url) IN
    IF video_id = None THEN [raised |-> TRUE, text |-> None, segments |-> None]
    ELSE IF out = "segments"
         THEN [raised |-> FALSE, text |-> Some(<<"api", video_id>>),
               segments |-> Some(<<"seg", video_id>>)]
         ELSE [raised |-> TRUE, text |-> None, segments |-> None]

\* get_video_metadata: None, or metadata with an optional title
get_video_metadata(url, out) ==
    LET video_id == extract_youtube_video_id(url) IN
    IF video_id = None THEN None
    ELSE IF out \in {"nonzero_exit", "timeout", "bad_json"} THEN None
    ELSE Some([video_id |-> video_id,
               title |-> CASE out = "no_title_key" -> Some("Untitled")
                           [] out = "null_title"   -> None
                           [] out = "empty_title"  -> Some("")
                           [] OTHER                -> Some("T"),
               description |-> IF HasDescription(url) THEN "D" ELSE ""])

\* Python truthiness of `metadata and metadata.title`
HasTitle(metadata) ==
    /\ metadata # None
    /\ metadata[1].title # None
    /\ metadata[1].title[1] # ""

\* ------------------------------------------------------------- settings
\* Settings as get_settings() caches them for the process lifetime
SettingsValues ==
    [enable_audio_transcription : BOOLEAN, gcp_project_id : {None, Some("proj")}]

AudioConfigured ==
    settings.enable_audio_transcription /\ settings.gcp_project_id # None

\* --------------------------------------------------------- request state
\* One /api/extract request: the route coroutine, the executor job running
\* get_transcript_with_fallback, and the metadata future of the route.
IdleReq ==
    [pc |-> "idle", url |-> None, calls |-> <<>>, result |-> None,
     error |-> None, tmp |-> "none",
     fut |-> [started |-> FALSE, done |-> FALSE, value |-> None],
     source |-> None, transcript_text |-> None, recipe |-> None,
     response |-> None]

Call(src, ok) == [src |-> src, ok |-> ok]

TranscriptResult(text, segments, source) ==
    [text |-> text, segments |-> segments, source |-> source]

NoTranscriptAvailable == [type |-> "ValueError", msg |-> "NO_TRANSCRIPT_AVAILABLE"]

\* as CacheWrite, without the test of the video id
CacheWrite_Unguarded(cache, video_id, result) ==
    [v \in DOMAIN cache \cup {video_id} |->
       IF v = video_id THEN result ELSE cache[v]]

\* `if video_id: _transcript_cache[video_id] = result`
CacheWrite(cache, video_id, result) ==
    IF video_id # None
    THEN [v \in DOMAIN cache \cup {video_id} |->
            IF v = video_id THEN result ELSE cache[v]]
    ELSE cache

\* the orchestrator returns `result`, storing it in the cache
Succeed(r, call, result) ==
    /\ req' = [req EXCEPT ![r].pc = "returned",
                          ![r].calls = Append(@, call),
                          ![r].result = Some(result),
                          ![r].tmp = IF @ = "live" THEN "released" ELSE @]
    /\ transcript_cache' =
          CacheWrite(transcript_cache, extract_youtube_video_id(req[r].url[1]), result)

\* the orchestrator raises ValueError("NO_TRANSCRIPT_AVAILABLE")
Fail(r, call, tmp) ==
    /\ req' = [req EXCEPT ![r].pc = "returned",
                          ![r].calls = Append(@, call),
                          ![r].error = Some(NoTranscriptAvailable),
                          ![r].tmp = tmp]
    /\ UNCHANGED transcript_cache

\* the chain advances to the next source
Advance(r, call, next, tmp) ==
    /\ req' = [req EXCEPT ![r].pc = next,
                          ![r].calls = Append(@, call),
                          ![r].tmp = tmp]
    /\ UNCHANGED transcript_cache

\* ------------------------------------------- get_transcript_with_fallback
\* a caller (the route's executor job, or a test) calls the orchestrator;
\* calls are numbered in the order they start
Invoke(r, u) ==
    /\ req[r].pc = "idle"
    /\ \A s \in Reqs : s < r => req[s].pc # "idle"
    /\ req' = [req EXCEPT ![r] = [IdleReq EXCEPT !.pc = "cache", !.url = Some(u)]]
    /\ UNCHANGED <<fn, stt, settings, transcript_cache, llm>>

\* "Check cache first"
CheckCache(r) ==
    /\ req[r].pc = "cache"
    /\ LET video_id == extract_youtube_video_id(req[r].url[1]) IN
       IF video_id # None /\ video_id \in DOMAIN transcript_cache
       THEN req' = [req EXCEPT ![r].pc = "returned",
                               ![r].result = Some(transcript_cache[video_id])]
       ELSE req' = [req EXCEPT ![r].pc = "ytdlp"]
    /\ UNCHANGED <<fn, stt, settings, transcript_cache, llm>>

\* as TryYtdlp, with the call given up when yt-dlp yields no captions
TryYtdlp_GiveUp(r, out) ==
    /\ req[r].pc = "ytdlp"
    /\ LET ytdlp_captions == get_captions_via_ytdlp(req[r].url[1], out) IN
       IF ytdlp_captions # None
       THEN Succeed(r, Call("ytdlp", TRUE),
                    TranscriptResult(ytdlp_captions[1], None, "captions"))
       ELSE Fail(r, Call("ytdlp", FALSE), "none")
    /\ UNCHANGED <<fn, stt, settings, llm>>

\* Step 1: yt-dlp captions
TryYtdlp(r, out) ==
    /\ req[r].pc = "ytdlp"
    /\ LET ytdlp_captions == get_captions_via_ytdlp(req[r].url[1], out) IN
       IF ytdlp_captions # None
       THEN Succeed(r, Call("ytdlp", TRUE),
                    TranscriptResult(ytdlp_captions[1], None, "captions"))
       ELSE Advance(r, Call("ytdlp", FALSE), "api", "none")
    /\ UNCHANGED <<fn, stt, settings, llm>>

\* as TryApi, without the try/except: the captions error reaches the caller
TryApi_Propagate(r, out) ==
    /\ req[r].pc = "api"
    /\ LET got == get_youtube_transcript(req[r].url[1], out) IN
       IF ~got.raised
       THEN Succeed(r, Call("api", TRUE),
                    TranscriptResult(got.text[1], got.segments, "captions"))
       ELSE Fail(r, Call("api", FALSE), "none")
    /\ UNCHANGED <<fn, stt, settings, llm>>

\* as TryApi, calling get_youtube_transcript again after a failure
TryApi_Retry(r, out) ==
    /\ req[r].pc = "api"
    /\ LET got == get_youtube_transcript(req[r].url[1], out) IN
       IF ~got.raised
       THEN Succeed(r, Call("api", TRUE),
                    TranscriptResult(got.text[1], got.segments, "captions"))
       ELSE Advance(r, Call("api", FALSE),
                    IF \E i \in 1..Len(req[r].calls) : req[r].calls[i].src = "api"
                    THEN "metadata" ELSE "api", "none")
    /\ UNCHANGED <<fn, stt, settings, llm>>

\* Step 2: youtube-transcript-api
TryApi(r, out) ==
    /\ req[r].pc = "api"
    /\ LET got == get_youtube_transcript(req[r].url[1], out) IN
       IF ~got.raised
       THEN Succeed(r, Call("api", TRUE),
                    TranscriptResult(got.text[1], got.segments, "captions"))
       ELSE Advance(r, Call("api", FALSE), "metadata", "none")
    /\ UNCHANGED <<fn, stt, settings, llm>>

\* f"Video title: {title}" plus the description when there is one
Placeholder(metadata) ==
    IF metadata.description # ""
    THEN <<"Video title", metadata.title[1], "Description", metadata.description>>
    ELSE <<"Video title", metadata.title[1]>>

\* the settings checks of step 4, as the code orders them
AfterMetadataFailed(r) ==
    IF ~settings.enable_audio_transcription
    THEN Fail(r, Call("metadata", FALSE), "none")
    ELSE IF settings.gcp_project_id = None
         THEN Fail(r, Call("metadata", FALSE), "none")
         ELSE Advance(r, Call("metadata", FALSE), "download", "none")

\* as TryMetadata, with audio tried before the placeholder is returned
TryMetadata_AudioFirst(r, out) ==
    /\ req[r].pc = "metadata"
    /\ LET metadata == get_video_metadata(req[r].url[1], out) IN
       IF HasTitle(metadata)
       THEN IF AudioConfigured
            THEN Advance(r, Call("metadata", TRUE), "download", "none")
            ELSE Succeed(r, Call("metadata", TRUE),
                         TranscriptResult(Placeholder(metadata[1]), None, "metadata"))
       ELSE AfterMetadataFailed(r)
    /\ UNCHANGED <<fn, stt, settings, llm>>

\* as TryMetadata, without the ENABLE_AUDIO_TRANSCRIPTION check
TryMetadata_IgnoreFlag(r, out) ==
    /\ req[r].pc = "metadata"
    /\ LET metadata == get_video_metadata(req[r].url[1], out) IN
       IF HasTitle(metadata)
       THEN Succeed(r, Call("metadata", TRUE),
                    TranscriptResult(Placeholder(metadata[1]), None, "metadata"))
       ELSE IF settings.gcp_project_id = None
            THEN Fail(r, Call("metadata", FALSE), "none")
            ELSE Advance(r, Call("metadata", FALSE), "download", "none")
    /\ UNCHANGED <<fn, stt, settings, llm>>

\* as TryMetadata, without the GCP_PROJECT_ID check
TryMetadata_NoProjectCheck(r, out) ==
    /\ req[r].pc = "metadata"
    /\ LET metadata == get_video_metadata(req[r].url[1], out) IN
       IF HasTitle(metadata)
       THEN Succeed(r, Call("metadata", TRUE),
                    TranscriptResult(Placeholder(metadata[1]), None, "metadata"))
       ELSE IF ~settings.enable_audio_transcription
            THEN Fail(r, Call("metadata", FALSE), "none")
            ELSE Advance(r, Call("metadata", FALSE), "download", "none")
    /\ UNCHANGED <<fn, stt, settings, llm>>

\* Step 3: metadata fallback, then the settings checks of step 4
TryMetadata(r, out) ==
    /\ req[r].pc = "metadata"
    /\ LET metadata == get_video_metadata(req[r].url[1], out) IN
       IF HasTitle(metadata)
       THEN Succeed(r, Call("metadata", TRUE),
                    TranscriptResult(Placeholder(metadata[1]), None, "metadata"))
       ELSE AfterMetadataFailed(r)
    /\ UNCHANGED <<fn, stt, settings, llm>>

\* Step 4: temporary directory, audio download, size guardrail
AudioDownload(r, out) ==
    /\ req[r].pc = "download"
    /\ IF out \in {"fail", "no_file"}
       THEN Fail(r, Call("download", FALSE), "released")
       ELSE IF out = "long_file"
            THEN Fail(r, Call("download", TRUE), "released")
            ELSE Advance(r, Call("download", TRUE), "transcribe", "live")
    /\ UNCHANGED <<fn, stt, settings, llm>>

\* as Transcribe, without the check for an empty transcription
Transcribe_AcceptEmpty(r, out) ==
    /\ req[r].pc = "transcribe"
    /\ IF out \in {"text", "empty"}
       THEN Succeed(r, Call("transcribe", TRUE),
                    TranscriptResult(IF out = "empty" THEN <<>>
                                     ELSE <<"stt", extract_youtube_video_id(req[r].url[1])>>,
                                     None, "audio"))
       ELSE Fail(r, Call("transcribe", FALSE), "released")
    /\ UNCHANGED <<fn, stt, settings, llm>>

\* as Transcribe, with the cleanup after the return instead of in a finally
Transcribe_NoFinally(r, out) ==
    /\ req[r].pc = "transcribe"
    /\ IF out = "text"
       THEN Succeed(r, Call("transcribe", TRUE),
                    TranscriptResult(<<"stt", extract_youtube_video_id(req[r].url[1])>>,
                                     None, "audio"))
       ELSE Fail(r, Call("transcribe", FALSE), "live")
    /\ UNCHANGED <<fn, stt, settings, llm>>

\* Step 4, continued: speech-to-text on the downloaded file
Transcribe(r, out) ==
    /\ req[r].pc = "transcribe"
    /\ IF out = "text"
       THEN Succeed(r, Call("transcribe", TRUE),
                    TranscriptResult(<<"stt", extract_youtube_video_id(req[r].url[1])>>,
                                     None, "audio"))
       ELSE Fail(r, Call("transcribe", FALSE), "released")
    /\ UNCHANGED <<fn, stt, settings, llm>>

\* ------------------------------------------------------ /api/extract route
\* call_llm_for_recipe / call_llm_for_recipe_from_metadata as the route
\* sees them: a validated recipe, or RuntimeError after the retries
LlmOutcomes == {"recipe", "runtime_error"}

Response(status, detail, source, transcript) ==
    [status |-> status, detail |-> detail,
     transcript_source |-> source, transcript |-> transcript]

\* extract_recipe starts the metadata future, then runs the orchestrator;
\* route requests are followed one at a time
StartRoute(r, u) ==
    /\ \A s \in Reqs : req[s].pc = "idle"
    /\ req' = [req EXCEPT ![r] = [IdleReq EXCEPT !.pc = "cache", !.url = Some(u),
                                                 !.fut.started = TRUE]]
    /\ UNCHANGED <<fn, stt, settings, transcript_cache, llm>>

\* the metadata future of the route completes in its executor thread
FutureDone(r, out) ==
    /\ req[r].fut.started
    /\ ~req[r].fut.done
    /\ req' = [req EXCEPT ![r].fut =
                  [started |-> TRUE, done |-> TRUE,
                   value |-> get_video_metadata(req[r].url[1], out)]]
    /\ UNCHANGED <<fn, stt, settings, transcript_cache, llm>>

\* whether the handler of the orchestrator's outcome awaits metadata_future
AwaitsFuture(q) == q.result = None

\* the try/except around get_transcript_with_fallback
AfterTranscript(q) ==
    IF q.result # None
    THEN [q EXCEPT !.pc = "extract",
                   !.source = Some(q.result[1].source),
                   !.transcript_text = Some(q.result[1].text)]
    ELSE IF q.error[1].type = "ValueError"
         THEN IF q.error[1].msg = "NO_TRANSCRIPT_AVAILABLE"
              THEN IF ~HasTitle(q.fut.value)
                   THEN [q EXCEPT !.pc = "done",
                           !.response = Some(Response(400,
                              <<"Could not extract transcript or fetch video metadata">>,
                              None, None))]
                   ELSE [q EXCEPT !.pc = "extract", !.source = Some("metadata"),
                                  !.transcript_text = None]
              ELSE [q EXCEPT !.pc = "done",
                      !.response = Some(Response(400, <<q.error[1].msg>>, None, None))]
         ELSE IF HasTitle(q.fut.value)
              THEN [q EXCEPT !.pc = "extract", !.source = Some("metadata"),
                             !.transcript_text = None]
              ELSE [q EXCEPT !.pc = "done",
                      !.response = Some(Response(500,
                         <<"Failed to get transcript", q.error[1].msg>>, None, None))]

RouteHandle(r) ==
    /\ req[r].pc = "returned"
    /\ AwaitsFuture(req[r]) => req[r].fut.done
    /\ req' = [req EXCEPT ![r] = AfterTranscript(req[r])]
    /\ UNCHANGED <<fn, stt, settings, transcript_cache, llm>>

\* f"Failed to extract recipe: {str(exc)}" for the exception that
\* call_llm_for_recipe raised: str(exc) is the message the exception was built
\* with, which for the failure after the retries ends with str(last_error)
FailureDetail(exc) ==
    <<"Failed to extract recipe", exc.msg>>
       \o (IF exc.msg = "Failed to extract recipe after N attempts"
           THEN IF exc.last_error = None THEN <<"None">>
                ELSE <<exc.last_error[1][2]>>
           ELSE <<>>)

\* as AfterExtract, with the extraction failure reported as a client error
AfterExtract_ClientError(q, out) ==
    IF q.source = Some("metadata") /\ ~HasTitle(q.fut.value)
    THEN [q EXCEPT !.pc = "done",
            !.response = Some(Response(500,
               <<"Failed to extract recipe",
                 "Could not fetch video metadata for recipe generation">>,
               None, None))]
    ELSE IF out = "recipe"
         THEN [q EXCEPT !.pc = "respond",
                 !.recipe = Some(IF q.source = Some("metadata")
                                 THEN <<"recipe_from_metadata", q.fut.value[1].title[1],
                                        q.fut.value[1].description>>
                                 ELSE <<"recipe", q.transcript_text[1]>>)]
         ELSE [q EXCEPT !.pc = "done",
                 !.response = Some(Response(400,
                    <<"Failed to extract recipe", "after attempts">>, None, None))]

\* the try/except around the recipe extraction
AfterExtract(q, out) ==
    IF q.source = Some("metadata") /\ ~HasTitle(q.fut.value)
    THEN [q EXCEPT !.pc = "done",
            !.response = Some(Response(500,
               <<"Failed to extract recipe",
                 "Could not fetch video metadata for recipe generation">>,
               None, None))]
    ELSE IF out = "recipe"
         THEN [q EXCEPT !.pc = "respond",
                 !.recipe = Some(IF q.source = Some("metadata")
                                 THEN <<"recipe_from_metadata", q.fut.value[1].title[1],
                                        q.fut.value[1].description>>
                                 ELSE <<"recipe", q.transcript_text[1]>>)]
         ELSE [q EXCEPT !.pc = "done",
                 !.response = Some(Response(500,
                    <<"Failed to extract recipe", "after attempts">>, None, None))]

RouteExtract(r, out) ==
    /\ req[r].pc = "extract"
    /\ req[r].source = Some("metadata") => req[r].fut.done
    /\ req' = [req EXCEPT ![r] = AfterExtract(req[r], out)]
    /\ UNCHANGED <<fn, stt, settings, transcript_cache, llm>>

\* as RouteRespond, without awaiting metadata_future
RouteRespond_NoAwait(r) ==
    /\ req[r].pc = "respond"
    /\ req' = [req EXCEPT ![r].pc = "done",
                  ![r].response = Some(Response(200, <<>>, req[r].source,
                      IF req[r].source # Some("metadata")
                      THEN req[r].transcript_text ELSE None))]
    /\ UNCHANGED <<fn, stt, settings, transcript_cache, llm>>

\* "Wait for video metadata", then the ExtractResponse
RouteRespond(r) ==
    /\ req[r].pc = "respond"
    /\ req[r].fut.done
    /\ req' = [req EXCEPT ![r].pc = "done",
                  ![r].response = Some(Response(200, <<>>, req[r].source,
                      IF req[r].source # Some("metadata")
                      THEN req[r].transcript_text ELSE None))]
    /\ UNCHANGED <<fn, stt, settings, transcript_cache, llm>>

\* the request is over; its worker serves the next one
Recycle(r) ==
    /\ req[r].pc = "done"
    /\ req[r].fut.done
    /\ req' = [req EXCEPT ![r] = IdleReq]
    /\ UNCHANGED <<fn, stt, settings, transcript_cache, llm>>

\* ------------------------------------------------------ RecipeLLMOutput
\* An ingredient as the model writes it (after json.loads)
RawIngredients ==
    [name : {"flour"},
     amount : {None, Some(2)},
     unit : {None, Some("cups")},
     source : {"explicit", "inferred", "optional"},
     suggested_amount : {None, Some(1)},
     suggested_unit : {None, Some("tsp")}]

SeqsUpTo(S, n) == UNION {[1..k -> S] : k \in 0..n}

\* A parsed model response: keys the model may omit are optional
RawRecipes ==
    [title : {None, Some("Cookies")},
     ingredients : {None} \cup {Some(v) : v \in SeqsUpTo(RawIngredients, MaxIngredients)}]

\* _normalize_llm_output: defaults for the keys the model omitted
normalize_llm_output(raw_json) ==
    [title |-> IF raw_json.title = None THEN "Untitled Recipe" ELSE raw_json.title[1],
     ingredients |-> IF raw_json.ingredients = None THEN <<>>
                     ELSE raw_json.ingredients[1]]

\* as FixIngredient, copying to the suggested fields without clearing
FixIngredient_NoClear(ing) ==
    LET moved ==
          IF ing.source = "inferred" /\ (ing.amount # None \/ ing.unit # None)
          THEN [ing EXCEPT
                  !.suggested_amount = IF @ = None THEN ing.amount ELSE @,
                  !.suggested_unit = IF @ = None THEN ing.unit ELSE @]
          ELSE ing
    IN IF moved.source = "explicit" /\ moved.amount = None /\ moved.unit = None
       THEN [moved EXCEPT !.source = "inferred"]
       ELSE moved

\* as FixIngredient, with the amount and unit written over suggestions the
\* ingredient already carries
FixIngredient_Overwrite(ing) ==
    LET moved ==
          IF ing.source = "inferred" /\ (ing.amount # None \/ ing.unit # None)
          THEN [ing EXCEPT
                  !.suggested_amount = ing.amount,
                  !.suggested_unit = ing.unit,
                  !.amount = None,
                  !.unit = None]
          ELSE ing
    IN IF moved.source = "explicit" /\ moved.amount = None /\ moved.unit = None
       THEN [moved EXCEPT !.source = "inferred"]
       ELSE moved

\* as FixIngredient, moving the unit only when the amount needed no move
FixIngredient_OneAtATime(ing) ==
    LET moved ==
          IF ing.source = "inferred" /\ (ing.amount # None \/ ing.unit # None)
          THEN IF ing.suggested_amount = None
               THEN [ing EXCEPT !.suggested_amount = ing.amount, !.amount = None]
               ELSE [ing EXCEPT
                       !.suggested_unit = IF @ = None THEN ing.unit ELSE @,
                       !.amount = None,
                       !.unit = None]
          ELSE ing
    IN IF moved.source = "explicit" /\ moved.amount = None /\ moved.unit = None
       THEN [moved EXCEPT !.source = "inferred"]
       ELSE moved

\* as FixIngredient, without the downgrade of explicit ingredients
FixIngredient_NoDemote(ing) ==
    IF ing.source = "inferred" /\ (ing.amount # None \/ ing.unit # None)
    THEN [ing EXCEPT
            !.suggested_amount = IF @ = None THEN ing.amount ELSE @,
            !.suggested_unit = IF @ = None THEN ing.unit ELSE @,
            !.amount = None,
            !.unit = None]
    ELSE ing

\* the body of the validator's loop, for one ingredient
FixIngredient(ing) ==
    LET moved ==
          IF ing.source = "inferred" /\ (ing.amount # None \/ ing.unit # None)
          THEN [ing EXCEPT
                  !.suggested_amount = IF @ = None THEN ing.amount ELSE @,
                  !.suggested_unit = IF @ = None THEN ing.unit ELSE @,
                  !.amount = None,
                  !.unit = None]
          ELSE ing
    IN IF moved.source = "explicit" /\ moved.amount = None /\ moved.unit = None
       THEN [moved EXCEPT !.source = "inferred"]
       ELSE moved

\* RecipeLLMOutput.ensure_no_hallucinated_amounts
ensure_no_hallucinated_amounts(v) == [i \in 1..Len(v) |-> FixIngredient(v[i])]

\* the field types of Ingredient: source is Literal["explicit", "inferred"]
IngredientTypeOk(ing) == ing.source \in {"explicit", "inferred"}

\* RecipeLLMOutput.model_validate: the validated recipe, or None when
\* pydantic raises ValidationError
model_validate(normalized) ==
    IF \A i \in 1..Len(normalized.ingredients) :
           IngredientTypeOk(normalized.ingredients[i])
    THEN Some([title |-> normalized.title,
               ingredients |-> ensure_no_hallucinated_amounts(normalized.ingredients)])
    ELSE None

\* ------------------------------------------------------ call_llm_for_recipe
\* What one generate_content call yields: an exception, text that cleans to
\* nothing, text no repair makes parseable, or a JSON object
ModelResponses ==
    [kind : {"raise", "empty", "not_json"}, json : {None}]
      \cup [kind : {"json"}, json : {Some(j) : j \in RawRecipes}]

LlmIdle ==
    [pc |-> "idle", max_retries |-> 0, vertex_project_id |-> None, attempt |-> 0,
     calls |-> 0, handles |-> 0, log |-> <<>>, last_error |-> None,
     last_raw |-> None, result |-> None, error |-> None]

\* the exception one attempt ends with, or None; the recipe it returns
AttemptError(resp) ==
    CASE resp.kind = "raise"    -> Some(<<"Exception", "model call failed">>)
      [] resp.kind = "empty"    -> Some(<<"ValueError", "Empty response from Vertex AI">>)
      [] resp.kind = "not_json" -> Some(<<"ValueError", "Invalid JSON from LLM">>)
      [] OTHER -> IF model_validate(normalize_llm_output(resp.json[1])) = None
                  THEN Some(<<"ValidationError", "RecipeLLMOutput">>)
                  ELSE None

\* RuntimeError(f"Failed to extract recipe after {max_retries} attempts: {last_error}")
ExtractionFailed(max_retries, last_error) ==
    [type |-> "RuntimeError", msg |-> "Failed to extract recipe after N attempts",
     attempts |-> max_retries, last_error |-> last_error]

\* as LlmCall, with initialize_vertex_ai called inside the loop's try block
LlmCall_InitInLoop(max_retries, vertex_project_id) ==
    /\ llm.pc = "idle"
    /\ llm' =
         IF max_retries = 0
         THEN [llm EXCEPT !.pc = "raised", !.max_retries = max_retries,
                 !.vertex_project_id = vertex_project_id, !.handles = 1,
                 !.error = Some(ExtractionFailed(max_retries, None))]
         ELSE [llm EXCEPT !.pc = "loop", !.max_retries = max_retries,
                 !.vertex_project_id = vertex_project_id, !.handles = 1,
                 !.attempt = 1]
    /\ UNCHANGED <<fn, stt, settings, transcript_cache, req>>

\* settings, initialize_vertex_ai, the model handle, then the loop is entered
LlmCall(max_retries, vertex_project_id) ==
    /\ llm.pc = "idle"
    /\ llm' =
         IF vertex_project_id = None
         THEN [llm EXCEPT !.pc = "raised", !.max_retries = max_retries,
                 !.error = Some([type |-> "RuntimeError",
                                 msg |-> "VERTEX_PROJECT_ID is not set",
                                 attempts |-> 0, last_error |-> None])]
         ELSE IF max_retries = 0
              THEN [llm EXCEPT !.pc = "raised", !.max_retries = max_retries,
                      !.vertex_project_id = vertex_project_id, !.handles = 1,
                      !.error = Some(ExtractionFailed(max_retries, None))]
              ELSE [llm EXCEPT !.pc = "loop", !.max_retries = max_retries,
                      !.vertex_project_id = vertex_project_id, !.handles = 1,
                      !.attempt = 1]
    /\ UNCHANGED <<fn, stt, settings, transcript_cache, req>>

\* as LlmAttempt, with the validated recipe kept but not returned while
\* attempts remain
LlmAttempt_NoReturn(resp) ==
    /\ llm.pc = "loop"
    /\ llm.attempt <= llm.max_retries
    /\ LET exc == AttemptError(resp) IN
       llm' =
         IF exc = None /\ llm.attempt + 1 > llm.max_retries
         THEN [llm EXCEPT !.pc = "returned", !.calls = @ + 1,
                 !.log = Append(@, exc), !.last_raw = resp.json,
                 !.result = model_validate(normalize_llm_output(resp.json[1]))]
         ELSE IF exc = None
              THEN [llm EXCEPT !.calls = @ + 1, !.attempt = @ + 1,
                      !.log = Append(@, exc), !.last_raw = resp.json,
                      !.result = model_validate(normalize_llm_output(resp.json[1]))]
              ELSE IF llm.attempt + 1 <= llm.max_retries
                   THEN [llm EXCEPT !.calls = @ + 1, !.attempt = @ + 1,
                           !.log = Append(@, exc), !.last_error = exc]
                   ELSE [llm EXCEPT !.pc = "raised", !.calls = @ + 1,
                           !.attempt = @ + 1,
                           !.log = Append(@, exc), !.last_error = exc,
                           !.error = Some(ExtractionFailed(llm.max_retries, exc))]
    /\ UNCHANGED <<fn, stt, settings, transcript_cache, req>>

\* as LlmAttempt, with the loop running once more: range(1, max_retries + 2)
LlmAttempt_OffByOne(resp) ==
    /\ llm.pc = "loop"
    /\ llm.attempt <= llm.max_retries + 1
    /\ LET exc == AttemptError(resp) IN
       llm' =
         IF exc = None
         THEN [llm EXCEPT !.pc = "returned", !.calls = @ + 1,
                 !.log = Append(@, exc), !.last_raw = resp.json,
                 !.result = model_validate(normalize_llm_output(resp.json[1]))]
         ELSE IF llm.attempt + 1 <= llm.max_retries + 1
              THEN [llm EXCEPT !.calls = @ + 1, !.attempt = @ + 1,
                      !.log = Append(@, exc), !.last_error = exc]
              ELSE [llm EXCEPT !.pc = "raised", !.calls = @ + 1, !.attempt = @ + 1,
                      !.log = Append(@, exc), !.last_error = exc,
                      !.error = Some(ExtractionFailed(llm.max_retries, exc))]
    /\ UNCHANGED <<fn, stt, settings, transcript_cache, req>>

\* one iteration of `for attempt in range(1, max_retries + 1)`, and the
\* raise after the loop when it was the last one; log holds what each
\* attempt ended with (its exception, or None for a return)
LlmAttempt(resp) ==
    /\ llm.pc = "loop"
    /\ llm.attempt <= llm.max_retries
    /\ LET exc == AttemptError(resp) IN
       llm' =
         IF exc = None
         THEN [llm EXCEPT !.pc = "returned", !.calls = @ + 1,
                 !.log = Append(@, exc), !.last_raw = resp.json,
                 !.result = model_validate(normalize_llm_output(resp.json[1]))]
         ELSE IF llm.attempt + 1 <= llm.max_retries
              THEN [llm EXCEPT !.calls = @ + 1, !.attempt = @ + 1,
                      !.log = Append(@, exc), !.last_error = exc]
              ELSE [llm EXCEPT !.pc = "raised", !.calls = @ + 1, !.attempt = @ + 1,
                      !.log = Append(@, exc), !.last_error = exc,
                      !.error = Some(ExtractionFailed(llm.max_retries, exc))]
    /\ UNCHANGED <<fn, stt, settings, transcript_cache, req>>

\* ------------------------------------------------------------- model text
\* Text is a sequence of characters. The characters that matter to the
\* cleaning and to json.loads: braces, brackets, comma, colon, quote, slash,
\* star, backtick (Tick), blank, newline, the digit 1 and letters.
Q == "\""
NL == "\n"
IsSpace(c) == c \in {" ", NL}
IsCloser(c) == c \in {"}", "]"}

\* s[i], or a blank past the end
At(s, i) == IF i \in 1..Len(s) THEN s[i] ELSE " "

\* the characters of s at the positions in K, in order
RECURSIVE PickFrom(_, _, _)
PickFrom(s, K, i) ==
    IF i > Len(s) THEN <<>>
    ELSE (IF i \in K THEN <<s[i]>> ELSE <<>>) \o PickFrom(s, K, i + 1)

\* str.strip()
strip(s) ==
    LET I == {i \in 1..Len(s) : ~IsSpace(s[i])} IN
    IF I = {} THEN <<>>
    ELSE SubSeq(s, CHOOSE i \in I : \A j \in I : i <= j,
                   CHOOSE i \in I : \A j \in I : i >= j)

startswith(s, p) == Len(s) >= Len(p) /\ SubSeq(s, 1, Len(p)) = p
endswith(s, p) == Len(s) >= Len(p) /\ SubSeq(s, Len(s) - Len(p) + 1, Len(s)) = p

\* str.find / str.rfind of one character, 1-based; 0 when it does not occur
find(s, c) ==
    LET I == {i \in 1..Len(s) : s[i] = c} IN
    IF I = {} THEN 0 ELSE CHOOSE i \in I : \A j \in I : i <= j
rfind(s, c) ==
    LET I == {i \in 1..Len(s) : s[i] = c} IN
    IF I = {} THEN 0 ELSE CHOOSE i \in I : \A j \in I : i >= j

\* str.count of one character
count(s, c) == Cardinality({i \in 1..Len(s) : s[i] = c})

\* the first position at or after i that holds no whitespace
RECURSIVE SkipWs(_, _)
SkipWs(s, i) == IF i <= Len(s) /\ IsSpace(s[i]) THEN SkipWs(s, i + 1) ELSE i

\* re.sub(r',(\s*[}\]])', r'\1', text): a comma that only whitespace
\* separates from a closing brace or bracket is removed
remove_trailing_commas(s) ==
    PickFrom(s, {i \in 1..Len(s) :
                   ~(s[i] = "," /\ SkipWs(s, i + 1) <= Len(s)
                                /\ IsCloser(s[SkipWs(s, i + 1)]))}, 1)

\* re.sub(r'//.*?$', '', text, flags=re.MULTILINE): from // to the end of
\* its line
remove_line_comments(s) ==
    PickFrom(s, {j \in 1..Len(s) :
                   ~\E i \in 1..j :
                       /\ s[i] = "/" /\ At(s, i + 1) = "/"
                       /\ \A k \in i..j : s[k] # NL}, 1)

\* the position of the / that ends the first */ at or after i; 0 if none
EndOfBlock(s, i) ==
    LET I == {k \in i..Len(s) - 1 : s[k] = "*" /\ s[k + 1] = "/"} IN
    IF I = {} THEN 0 ELSE (CHOOSE k \in I : \A m \in I : k <= m) + 1

\* re.sub(r'/\*.*?\*/', '', text, flags=re.DOTALL)
RECURSIVE BlockFrom(_, _)
BlockFrom(s, i) ==
    IF i > Len(s) THEN <<>>
    ELSE IF s[i] = "/" /\ At(s, i + 1) = "*" /\ EndOfBlock(s, i + 2) # 0
         THEN BlockFrom(s, EndOfBlock(s, i + 2) + 1)
         ELSE <<s[i]>> \o BlockFrom(s, i + 1)
remove_block_comments(s) == BlockFrom(s, 1)

\* the backtick character
Tick == "tick"
Fence == <<Tick, Tick, Tick>>
FenceJson == Fence \o <<"j", "s", "o", "n">>

\* lines 139-146: strip, drop an opening json fence, an opening fence, a
\* closing fence, strip
strip_fences(text) ==
    LET t0 == strip(text)
        t1 == IF startswith(t0, FenceJson) THEN SubSeq(t0, 8, Len(t0)) ELSE t0
        t2 == IF startswith(t1, Fence) THEN SubSeq(t1, 4, Len(t1)) ELSE t1
        t3 == IF endswith(t2, Fence) THEN SubSeq(t2, 1, Len(t2) - 3) ELSE t2
    IN strip(t3)

\* the loop of lines 163-172 from position i with brace_count c: the
\* position of the brace that brings the count back to 0, or 0
RECURSIVE MatchingBrace(_, _, _)
MatchingBrace(s, i, c) ==
    IF i > Len(s) THEN 0
    ELSE IF s[i] = "{" THEN MatchingBrace(s, i + 1, c + 1)
    ELSE IF s[i] = "}"
         THEN IF c = 1 THEN i ELSE MatchingBrace(s, i + 1, c - 1)
    ELSE MatchingBrace(s, i + 1, c)

\* lines 156-182: the text from the first { to its matching }, else to the
\* last }, else the text as it is
extract_object(text) ==
    LET start == find(text, "{") IN
    IF start = 0 THEN strip(text)
    ELSE LET end == MatchingBrace(text, start, 0) IN
         IF end # 0 THEN strip(SubSeq(text, start, end))
         ELSE IF rfind(text, "}") > start
              THEN strip(SubSeq(text, start, rfind(text, "}")))
              ELSE strip(text)

\* _clean_model_text
clean_model_text(text) ==
    extract_object(
        remove_block_comments(
            remove_line_comments(
                remove_trailing_commas(strip_fences(text)))))

\* ---------------------------------------------------------------- json.loads
\* A recursive-descent reading of the JSON grammar over these characters:
\* objects, arrays, strings without escapes (a newline inside a string is a
\* control character and is rejected), numbers written with the digit 1.
\* Each Parse operator takes the position a value starts at and gives the
\* position after it, or 0 when there is no such value.
IsDigit(c) == c = "1"

RECURSIVE AfterDigits(_, _)
AfterDigits(s, i) == IF i <= Len(s) /\ IsDigit(s[i]) THEN AfterDigits(s, i + 1) ELSE i

\* s[i] is the opening quote
ParseString(s, i) ==
    LET I == {j \in i + 1..Len(s) : s[j] = Q} IN
    IF I = {} THEN 0
    ELSE LET j == CHOOSE k \in I : \A m \in I : k <= m IN
         IF \E k \in i + 1..j - 1 : s[k] = NL THEN 0 ELSE j + 1

RECURSIVE ParseValue(_, _), ParseMembers(_, _), ParseElements(_, _)

\* a value that starts at the first non-blank position at or after i
ParseValue(s, i) ==
    LET j == SkipWs(s, i) IN
    IF j > Len(s) THEN 0
    ELSE IF s[j] = "{"
         THEN IF At(s, SkipWs(s, j + 1)) = "}" /\ SkipWs(s, j + 1) <= Len(s)
              THEN SkipWs(s, j + 1) + 1
              ELSE ParseMembers(s, j + 1)
    ELSE IF s[j] = "["
         THEN IF At(s, SkipWs(s, j + 1)) = "]" /\ SkipWs(s, j + 1) <= Len(s)
              THEN SkipWs(s, j + 1) + 1
              ELSE ParseElements(s, j + 1)
    ELSE IF s[j] = Q THEN ParseString(s, j)
    ELSE IF IsDigit(s[j]) THEN AfterDigits(s, j)
    ELSE 0

\* "key": value pairs separated by commas, up to and including the }
ParseMembers(s, i) ==
    LET k == SkipWs(s, i) IN
    IF k > Len(s) \/ s[k] # Q THEN 0
    ELSE LET c == IF ParseString(s, k) = 0 THEN 0 ELSE SkipWs(s, ParseString(s, k)) IN
         IF c = 0 \/ c > Len(s) \/ s[c] # ":" THEN 0
         ELSE LET v == ParseValue(s, c + 1) IN
              IF v = 0 THEN 0
              ELSE LET e == SkipWs(s, v) IN
                   IF e > Len(s) THEN 0
                   ELSE IF s[e] = "}" THEN e + 1
                   ELSE IF s[e] = "," THEN ParseMembers(s, e + 1)
                   ELSE 0

\* values separated by commas, up to and including the ]
ParseElements(s, i) ==
    LET v == ParseValue(s, i) IN
    IF v = 0 THEN 0
    ELSE LET e == SkipWs(s, v) IN
         IF e > Len(s) THEN 0
         ELSE IF s[e] = "]" THEN e + 1
         ELSE IF s[e] = "," THEN ParseElements(s, e + 1)
         ELSE 0

\* json.loads(content) does not raise JSONDecodeError
json_loads_ok(content) ==
    LET v == ParseValue(content, 1) IN
    v # 0 /\ SkipWs(content, v) = Len(content) + 1

\* ------------------------------------------- the parse stage of an attempt
\* "]" for each bracket and then "}" for each brace that content opens
\* more often than it closes (range() of a negative number is empty)
Repeat(c, n) == [i \in 1..n |-> c]
completion(content) ==
    LET missing_braces == count(content, "{") - count(content, "}")
        missing_brackets == count(content, "[") - count(content, "]")
    IN Repeat("]", IF missing_brackets > 0 THEN missing_brackets ELSE 0)
         \o Repeat("}", IF missing_braces > 0 THEN missing_braces ELSE 0)

appears_truncated(content) ==
    \/ count(content, "{") > count(content, "}")
    \/ count(content, "[") > count(content, "]")

Parsed(content, repairs) ==
    [ok |-> TRUE, content |-> content, repairs |-> repairs, error |-> None]
NotParsed(content, repairs, msg) ==
    [ok |-> FALSE, content |-> content, repairs |-> repairs,
     error |-> Some(<<"ValueError", msg>>)]

\* lines 298-350 of call_llm_for_recipe: clean the response text, parse it,
\* and on JSONDecodeError either complete the brackets or remove trailing
\* commas and parse once more; content is the text last handed to
\* json.loads, repairs the repairs applied to it
parse_stage(text) ==
    LET content == clean_model_text(text) IN
    IF content = <<>>
    THEN NotParsed(content, <<>>, "Empty response from Vertex AI")
    ELSE IF json_loads_ok(content) THEN Parsed(content, <<>>)
    ELSE IF appears_truncated(content)
         THEN LET completed == content \o completion(content) IN
              IF json_loads_ok(completed)
              THEN Parsed(completed, <<"completion">>)
              ELSE NotParsed(completed, <<"completion">>,
                             "Invalid/truncated JSON from LLM")
         ELSE LET cleaned == remove_trailing_commas(content) IN
              IF json_loads_ok(cleaned)
              THEN Parsed(cleaned, <<"trailing_commas">>)
              ELSE NotParsed(cleaned, <<"trailing_commas">>,
                             "Invalid JSON from LLM")

\* ------------------------------------------------------- model responses
\* What a string of a response may hold between its quotes: a letter, a
\* brace or bracket, a comma before a closer, a URL-like //, a /* */
StrBodies ==
    {<<"a">>, <<"{">>, <<"}">>, <<"[">>, <<"]">>, <<",", "}">>,
     <<"/", "/", "a">>, <<"/", "*", "a", "*", "/">>}

Str(body) == <<Q>> \o body \o <<Q>>
Key == Str(<<"k">>)
Member(v) == Key \o <<":">> \o v
Scalars == {<<"1">>} \cup {Str(b) : b \in StrBodies}

\* the texts of the JSON values nested at most d deep, over the number
\* and the plain string
RECURSIVE JsonValues(_)
JsonValues(d) ==
    IF d = 0 THEN {<<"1">>, Str(<<"a">>)}
    ELSE LET V == JsonValues(d - 1) IN
         V \cup {<<"[", "]">>, <<"{", "}">>}
           \cup {<<"[">> \o v \o <<"]">> : v \in V}
           \cup {<<"[">> \o v \o <<",", "1", "]">> : v \in V}
           \cup {<<"{">> \o Member(v) \o <<"}">> : v \in V}

\* the texts of valid JSON objects: empty, one member, two members, and
\* one member laid out over three lines
JsonObjects ==
    {<<"{", "}">>}
      \cup {<<"{">> \o Member(v) \o <<"}">> :
              v \in Scalars \cup JsonValues(MaxDepth)}
      \cup {<<"{">> \o Member(v) \o <<",">> \o Member(<<"1">>) \o <<"}">> :
              v \in Scalars \cup JsonValues(MaxDepth)}
      \cup {<<"{", NL>> \o Key \o <<":", " ">> \o v \o <<NL, "}">> : v \in Scalars}

\* what the model may put before and after the object
Prefixes ==
    {<<>>, Fence \o <<NL>>, FenceJson \o <<NL>>, <<"a", " ", "a", ":", NL>>,
     <<"a", ":", NL>> \o FenceJson \o <<NL>>}
Suffixes == {<<>>, <<NL>> \o Fence, <<NL, "a", " ", "a">>}

\* the number of closing braces and brackets the text ends with
RECURSIVE TrailingClosers(_)
TrailingClosers(s) ==
    IF s # <<>> /\ IsCloser(s[Len(s)])
    THEN 1 + TrailingClosers(SubSeq(s, 1, Len(s) - 1))
    ELSE 0

\* ------------------------------------------------ timestamps and evidence
\* A JSON value in a timestamp position: null, "", a string float() rejects,
\* a number, or a string holding a number; n is 0 where there is no number.
\* Seconds are whole numbers.
JsonTimes ==
    [kind : {"null", "empty", "text"}, n : {0}]
      \cup [kind : {"num", "numstr"}, n : 0..MaxSec]

Num(n) == [kind |-> "num", n |-> n]

\* a timestamp key of a dict: absent, or present with a JSON value
RawTimes == {None} \cup {Some(t) : t \in JsonTimes}

\* d.get(key) is None: the key is absent or holds null
GetIsNone(field) == field = None \/ field[1].kind = "null"

\* coerce_time of Evidence and of Step (mode="before")
coerce_time(v) ==
    IF v.kind \in {"null", "empty"} THEN 0
    ELSE IF v.kind \in {"num", "numstr"} THEN v.n
    ELSE 0

\* as end_after_start, returning the end it was given
end_after_start_NoClamp(end, start) == end

\* Evidence.end_after_start
end_after_start(end, start) == IF end >= start THEN end ELSE start

\* the evidence key of an ingredient: absent, or a dict with optional keys
RawEvidences ==
    {None} \cup {Some(e) : e \in [start_sec : RawTimes, end_sec : RawTimes]}

\* start_sec/end_sec defaults of _normalize_llm_output, shared by the
\* evidence of an ingredient and by a step: None when `start + 1.0` raises
\* TypeError (start_sec is a string)
DefaultTimes(d) ==
    LET start == IF GetIsNone(d.start_sec) THEN Num(0) ELSE d.start_sec[1] IN
    IF GetIsNone(d.end_sec)
    THEN IF start.kind = "num"
         THEN Some([d EXCEPT !.start_sec = Some(start),
                             !.end_sec = Some(Num(start.n + 1))])
         ELSE None
    ELSE Some([d EXCEPT !.start_sec = Some(start)])

\* "Ensure evidence exists and has timestamps"
normalize_evidence(evidence) ==
    IF evidence = None
    THEN Some([start_sec |-> Some(Num(0)), end_sec |-> Some(Num(0))])
    ELSE DefaultTimes(evidence[1])

\* Evidence.model_validate on a dict that has both keys
Evidence(d) ==
    LET start == coerce_time(d.start_sec[1]) IN
    [start_sec |-> start,
     end_sec |-> end_after_start(coerce_time(d.end_sec[1]), start)]

\* the steps' timestamps as the model may give them
RawStepTimes == [start_sec : RawTimes, end_sec : RawTimes]

\* Step.model_validate on a dict that has both keys: the timestamps are
\* coerced and nothing else is done to them
Step(d) ==
    [start_sec |-> coerce_time(d.start_sec[1]),
     end_sec |-> coerce_time(d.end_sec[1])]

\* ------------------------------------------------------------ field names
\* The keys of a parsed response that _normalize_llm_output renames or
\* defaults; a key is absent (None) or present with a value. Lists hold at
\* most one element: each element is normalised on its own.
RawNamedIngredients == [name : {None, Some("N")}, item : {None, Some("I")}]
RawNamedSteps ==
    [text : {None, Some("T")}, instruction : {None, Some("I")},
     step : {None, Some("S")}]
OptionalList(S) == {None} \cup {Some(v) : v \in SeqsUpTo(S, 1)}
RawResponses ==
    [title : {None, Some("T")}, recipe_name : {None, Some("R")},
     ingredients : OptionalList(RawNamedIngredients),
     steps : OptionalList(RawNamedSteps),
     missing_info : OptionalList({"m"}),
     notes : OptionalList({"n"})]

\* `if "item" in ing and "name" not in ing`
normalize_ingredient_name(ing) ==
    IF ing.item # None /\ ing.name = None
    THEN [name |-> ing.item, item |-> None]
    ELSE ing

\* the two renamings of a step's text, in the order of the code
normalize_step_text(step) ==
    LET s1 == IF step.instruction # None /\ step.text = None
              THEN [step EXCEPT !.text = step.instruction, !.instruction = None]
              ELSE step
    IN IF s1.step # None /\ s1.text = None
       THEN [s1 EXCEPT !.text = s1.step, !.step = None]
       ELSE s1

\* as normalize_field_names, with recipe_name always written to title
normalize_field_names_Overwrite(raw) ==
    [title |-> IF raw.recipe_name # None THEN raw.recipe_name
               ELSE IF raw.title = None THEN Some("Untitled Recipe")
               ELSE raw.title,
     recipe_name |-> None,
     ingredients |->
       IF raw.ingredients = None THEN Some(<<>>)
       ELSE Some([i \in 1..Len(raw.ingredients[1]) |->
                    normalize_ingredient_name(raw.ingredients[1][i])]),
     steps |->
       IF raw.steps = None THEN Some(<<>>)
       ELSE Some([i \in 1..Len(raw.steps[1]) |->
                    normalize_step_text(raw.steps[1][i])]),
     missing_info |-> IF raw.missing_info = None THEN Some(<<>>) ELSE raw.missing_info,
     notes |-> IF raw.notes = None THEN Some(<<>>) ELSE raw.notes]

\* _normalize_llm_output on the keys it renames and defaults
normalize_field_names(raw) ==
    LET renamed == IF raw.recipe_name # None /\ raw.title = None
                   THEN [raw EXCEPT !.title = raw.recipe_name, !.recipe_name = None]
                   ELSE raw
    IN [title |-> IF renamed.title = None THEN Some("Untitled Recipe")
                  ELSE renamed.title,
        recipe_name |-> renamed.recipe_name,
        ingredients |->
          IF raw.ingredients = None THEN Some(<<>>)
          ELSE Some([i \in 1..Len(raw.ingredients[1]) |->
                       normalize_ingredient_name(raw.ingredients[1][i])]),
        steps |->
          IF raw.steps = None THEN Some(<<>>)
          ELSE Some([i \in 1..Len(raw.steps[1]) |->
                       normalize_step_text(raw.steps[1][i])]),
        missing_info |-> IF raw.missing_info = None THEN Some(<<>>) ELSE raw.missing_info,
        notes |-> IF raw.notes = None THEN Some(<<>>) ELSE raw.notes]

\* the required fields of RecipeLLMOutput, Ingredient and Step among these
\* keys: title, ingredients, steps; name; text
RequiredFieldsPresent(d) ==
    /\ d.title # None
    /\ d.ingredients # None
    /\ d.steps # None
    /\ \A i \in 1..Len(d.ingredients[1]) : d.ingredients[1][i].name # None
    /\ \A i \in 1..Len(d.steps[1]) : d.steps[1][i].text # None

\* ------------------------------------------------------- _pick_transcript
\* A caption track is <<kind, language>>; the transcript list of a video
\* holds at most one track of a kind and language.
TrackLists == SUBSET ({"manual", "generated"} \X {"en-US", "en", "fr"})

\* _pick_transcript on a video with these tracks: the track fetched, or None
\* when the call raises. TranscriptList.find_transcript looks, for each
\* language code in turn, among the manual and then the generated tracks;
\* find_generated_transcript looks among the generated tracks only;
\* iterating the list yields the manual tracks, then the generated ones.
pick_transcript(tracks) ==
    LET Find(language_codes, kinds) ==
           LET hits == {ij \in (1..Len(language_codes)) \X (1..Len(kinds)) :
                          <<kinds[ij[2]], language_codes[ij[1]]>> \in tracks}
               first == CHOOSE ij \in hits : \A h \in hits :
                          \/ ij[1] < h[1]
                          \/ ij[1] = h[1] /\ ij[2] <= h[2]
           IN  IF hits = {} THEN None
               ELSE Some(<<kinds[first[2]], language_codes[first[1]]>>)
        find_transcript(language_codes) ==
           Find(language_codes, <<"manual", "generated">>)
        find_generated_transcript(language_codes) ==
           Find(language_codes, <<"generated">>)
        manual == {t \in tracks : t[1] = "manual"}
    IN  IF find_transcript(<<"en-US", "en">>) # None
          THEN find_transcript(<<"en-US", "en">>)
        ELSE IF find_transcript(<<"en">>) # None
          THEN find_transcript(<<"en">>)
        ELSE IF find_generated_transcript(<<"en-US", "en">>) # None
          THEN find_generated_transcript(<<"en-US", "en">>)
        ELSE IF find_generated_transcript(<<"en">>) # None
          THEN find_generated_transcript(<<"en">>)
        ELSE IF manual # {} THEN Some(CHOOSE t \in manual : TRUE)
        ELSE IF tracks # {} THEN Some(CHOOSE t \in tracks : TRUE)
        ELSE None

\* ------------------------------------------------ answer_recipe_question
\* as answer_recipe_question, with an empty answer raised as an error
answer_recipe_question_RaiseOnEmpty(vertex_project_id, response) ==
    IF vertex_project_id = None
    THEN [raised |-> Some("VERTEX_PROJECT_ID is not set"), answer |-> None]
    ELSE IF response.raises
         THEN [raised |-> Some("Failed to answer question"), answer |-> None]
         ELSE LET answer == strip(IF response.text = None THEN <<>>
                                  ELSE response.text[1])
              IN  IF answer = <<>>
                  THEN [raised |-> Some("Failed to answer question"), answer |-> None]
                  ELSE [raised |-> None, answer |-> Some(answer)]

\* answer_recipe_question on one model response: what it raises, or the
\* answer it returns. The response is generate_content raising, or its text.
answer_recipe_question(vertex_project_id, response) ==
    IF vertex_project_id = None
    THEN [raised |-> Some("VERTEX_PROJECT_ID is not set"), answer |-> None]
    ELSE IF response.raises
         THEN [raised |-> Some("Failed to answer question"), answer |-> None]
         ELSE LET answer == strip(IF response.text = None THEN <<>>
                                  ELSE response.text[1])
              IN  IF answer = <<>>
                  THEN [raised |-> None,
                        answer |-> Some(<<"I couldn't generate an answer.">>)]
                  ELSE [raised |-> None, answer |-> Some(answer)]

\* ------------------------------------------------- validation, applied once
\* one application of a function of the program to one input: which
\* function, its argument, and what it returned
FnIdle == [op |-> "none", arg |-> None, out |-> None]

Apply(op, arg, out) ==
    /\ fn = FnIdle
    /\ fn' = [op |-> op, arg |-> Some(arg), out |-> Some(out)]
    /\ UNCHANGED <<settings, transcript_cache, req, llm, stt>>

\* RecipeLLMOutput.model_validate on a normalized model response
ValidateRecipe(raw) ==
    Apply("model_validate", raw, model_validate(normalize_llm_output(raw)))

\* the evidence of one ingredient through _normalize_llm_output and
\* Evidence; None when normalisation raises
ValidateEvidence(evidence) ==
    Apply("Evidence", evidence,
          LET n == normalize_evidence(evidence) IN
          IF n = None THEN None ELSE Some(Evidence(n[1])))

\* the timestamps of one step through _normalize_llm_output and Step
ValidateStep(step) ==
    Apply("Step", step,
          LET n == DefaultTimes(step) IN
          IF n = None THEN None ELSE Some(Step(n[1])))

\* _clean_model_text on a response holding one JSON object
CleanText(prefix, object, suffix) ==
    Apply("clean",
          [text |-> prefix \o object \o suffix, whole |-> object, cut |-> 0],
          clean_model_text(prefix \o object \o suffix))

\* the parse stage on a response that is a JSON object with its last cut
\* characters missing (max_output_tokens reached)
ParseText(object, cut) ==
    Apply("parse",
          [text |-> SubSeq(object, 1, Len(object) - cut), whole |-> object,
           cut |-> cut],
          parse_stage(SubSeq(object, 1, Len(object) - cut)))

\* _normalize_llm_output on one parsed response, and whether validation
\* then finds every required field
NormalizeResponse(raw) ==
    Apply("normalize", raw,
          [normalized |-> normalize_field_names(raw),
           valid |-> RequiredFieldsPresent(normalize_field_names(raw))])

\* ------------------------------------------------ transcribe_audio_google
\* seconds of audio per chunk
CHUNK_SEC == 55
\* audio up to this long is recognised in one call
SHORT_SEC == 60
\* upper limit of the thread pool's workers
POOL_WORKERS == 6
\* Settings.stt_max_audio_seconds
STT_MAX_AUDIO_SECONDS == 600

\* A transcript is a sequence of words; the words chunk idx yields are idx
\* itself, so that the origin of every word of the result is known.
ChunkTranscript(idx) == <<idx>>

ChunkOutcomes == {"text", "empty", "raise"}

\* durations at the edges of the chunking, in whole seconds
Durations ==
    {1, SHORT_SEC, SHORT_SEC + 1, CHUNK_SEC * MaxChunks}
      \cup {CHUNK_SEC * k : k \in 2..MaxChunks}
      \cup {CHUNK_SEC * k + 1 : k \in 2..MaxChunks - 1}

\* values of the setting stt_max_audio_seconds: the default, one that cuts
\* chunked audio short, and one below the length of a single call
CeilingValues == {STT_MAX_AUDIO_SECONDS, CHUNK_SEC * 2, CHUNK_SEC - 25}

SttIdle ==
    [pc |-> "idle", duration |-> 0, max_audio_seconds |-> 0, total_sec |-> 0, chunk_tasks |-> <<>>, max_workers |-> 0,
     started |-> 0, running |-> {}, parts_dict |-> <<>>, failed |-> {},
     calls |-> {}, result |-> None, error |-> None, td |-> "none"]

Min2(a, b) == IF a <= b THEN a ELSE b

\* the recognition call transcribe_chunk makes for a chunk of dur seconds
RecognizeCall(dur) ==
    IF dur >= CHUNK_SEC THEN "long_running_recognize" ELSE "recognize"

\* as ChunkTasksFrom, with every chunk of the full length
RECURSIVE ChunkTasksFrom_FullLength(_, _, _)
ChunkTasksFrom_FullLength(total_sec, start, idx) ==
    IF start < total_sec
    THEN LET dur == CHUNK_SEC IN
         <<[idx |-> idx, start |-> start, dur |-> dur]>>
            \o ChunkTasksFrom_FullLength(total_sec, start + dur, idx + 1)
    ELSE <<>>

\* the while loop that creates the chunk tasks, from (start, idx) on
RECURSIVE ChunkTasksFrom(_, _, _)
ChunkTasksFrom(total_sec, start, idx) ==
    IF start < total_sec
    THEN LET dur == Min2(CHUNK_SEC, total_sec - start) IN
         <<[idx |-> idx, start |-> start, dur |-> dur]>>
            \o ChunkTasksFrom(total_sec, start + dur, idx + 1)
    ELSE <<>>

\* the position of key idx in the dict, or 0
PositionOf(parts_dict, idx) ==
    LET I == {k \in 1..Len(parts_dict) : parts_dict[k].idx = idx} IN
    IF I = {} THEN 0 ELSE CHOOSE k \in I : TRUE

\* the non-empty parts joined in the order the dict holds them
RECURSIVE JoinFrom(_, _)
JoinFrom(parts_dict, k) ==
    IF k > Len(parts_dict) THEN <<>>
    ELSE parts_dict[k].text \o JoinFrom(parts_dict, k + 1)

\* [parts_dict[i] for i in sorted(parts_dict.keys()) if parts_dict[i]],
\* joined; n is the number of chunk tasks
RECURSIVE SortedJoin(_, _, _)
SortedJoin(parts_dict, idx, n) ==
    IF idx >= n THEN <<>>
    ELSE (IF PositionOf(parts_dict, idx) = 0 THEN <<>>
          ELSE parts_dict[PositionOf(parts_dict, idx)].text)
           \o SortedJoin(parts_dict, idx + 1, n)
\* as Reassembled, without sorting the keys
Reassembled_InsertionOrder(parts_dict, n) == JoinFrom(parts_dict, 1)
Reassembled(parts_dict, n) == SortedJoin(parts_dict, 0, n)

\* as SttBegin, without the hard cap
SttBegin_NoCap(duration, max_audio_seconds) ==
    /\ stt.pc = "idle"
    /\ LET total_sec == duration IN
       stt' =
         IF total_sec <= SHORT_SEC
         THEN [stt EXCEPT !.pc = "single", !.total_sec = total_sec, !.td = "live",
                 !.duration = duration, !.max_audio_seconds = max_audio_seconds]
         ELSE [stt EXCEPT !.pc = "chunks", !.total_sec = total_sec, !.td = "live",
                 !.duration = duration, !.max_audio_seconds = max_audio_seconds,
                 !.chunk_tasks = ChunkTasksFrom(total_sec, 0, 0),
                 !.max_workers =
                    Min2(POOL_WORKERS, Len(ChunkTasksFrom(total_sec, 0, 0)))]
    /\ UNCHANGED <<settings, transcript_cache, req, llm, fn>>

\* conversion, duration, the cap, and the choice between one call and chunks
SttBegin(duration, max_audio_seconds) ==
    /\ stt.pc = "idle"
    /\ LET total_sec == Min2(duration, max_audio_seconds) IN
       stt' =
         IF total_sec <= SHORT_SEC
         THEN [stt EXCEPT !.pc = "single", !.total_sec = total_sec, !.td = "live",
                 !.duration = duration, !.max_audio_seconds = max_audio_seconds]
         ELSE [stt EXCEPT !.pc = "chunks", !.total_sec = total_sec, !.td = "live",
                 !.duration = duration, !.max_audio_seconds = max_audio_seconds,
                 !.chunk_tasks = ChunkTasksFrom(total_sec, 0, 0),
                 !.max_workers =
                    Min2(POOL_WORKERS, Len(ChunkTasksFrom(total_sec, 0, 0)))]
    /\ UNCHANGED <<settings, transcript_cache, req, llm, fn>>

\* long_running_recognize on the whole file; the with block of the
\* temporary directory ends on the return and on the exception
RecognizeWhole(out) ==
    /\ stt.pc = "single"
    /\ stt' =
         IF out = "raise"
         THEN [stt EXCEPT !.pc = "raised", !.error = Some("recognize failed"),
                 !.calls = {<<0, "long_running_recognize">>}, !.td = "released"]
         ELSE [stt EXCEPT !.pc = "returned", !.td = "released",
                 !.calls = {<<0, "long_running_recognize">>},
                 !.result = Some(IF out = "text" THEN ChunkTranscript(0) ELSE <<>>)]
    /\ UNCHANGED <<settings, transcript_cache, req, llm, fn>>

\* as StartChunk, with a thread per task
StartChunk_NoCap ==
    /\ stt.pc = "chunks"
    /\ stt.started < Len(stt.chunk_tasks)
    /\ stt' = [stt EXCEPT !.started = @ + 1,
                 !.running = @ \cup {stt.chunk_tasks[stt.started + 1].idx},
                 !.calls = @ \cup
                    {<<stt.chunk_tasks[stt.started + 1].idx,
                       RecognizeCall(stt.chunk_tasks[stt.started + 1].dur)>>}]
    /\ UNCHANGED <<settings, transcript_cache, req, llm, fn>>

\* a free worker of the pool takes the next submitted task
StartChunk ==
    /\ stt.pc = "chunks"
    /\ stt.started < Len(stt.chunk_tasks)
    /\ Cardinality(stt.running) < stt.max_workers
    /\ stt' = [stt EXCEPT !.started = @ + 1,
                 !.running = @ \cup {stt.chunk_tasks[stt.started + 1].idx},
                 !.calls = @ \cup
                    {<<stt.chunk_tasks[stt.started + 1].idx,
                       RecognizeCall(stt.chunk_tasks[stt.started + 1].dur)>>}]
    /\ UNCHANGED <<settings, transcript_cache, req, llm, fn>>

\* as FinishChunk, without the try/except around future.result()
FinishChunk_Abort(idx, out) ==
    /\ stt.pc = "chunks"
    /\ idx \in stt.running
    /\ stt' =
         IF out = "raise"
         THEN [stt EXCEPT !.pc = "raised", !.running = @ \ {idx},
                 !.failed = @ \cup {idx}, !.error = Some("recognize failed")]
         ELSE [stt EXCEPT !.running = @ \ {idx},
                 !.parts_dict =
                    Append(@, [idx |-> idx,
                               text |-> IF out = "text" THEN ChunkTranscript(idx)
                                        ELSE <<>>])]
    /\ UNCHANGED <<settings, transcript_cache, req, llm, fn>>

\* transcribe_chunk returns or raises, and as_completed hands the future to
\* the loop that fills parts_dict; a failure is logged and skipped
FinishChunk(idx, out) ==
    /\ stt.pc = "chunks"
    /\ idx \in stt.running
    /\ stt' =
         IF out = "raise"
         THEN [stt EXCEPT !.running = @ \ {idx}, !.failed = @ \cup {idx}]
         ELSE [stt EXCEPT !.running = @ \ {idx},
                 !.parts_dict =
                    Append(@, [idx |-> idx,
                               text |-> IF out = "text" THEN ChunkTranscript(idx)
                                        ELSE <<>>])]
    /\ UNCHANGED <<settings, transcript_cache, req, llm, fn>>

\* the pool has shut down: "Reassemble in order" and return
Reassemble ==
    /\ stt.pc = "chunks"
    /\ stt.started = Len(stt.chunk_tasks)
    /\ stt.running = {}
    /\ stt' = [stt EXCEPT !.pc = "returned", !.td = "released",
                 !.result = Some(Reassembled(stt.parts_dict, Len(stt.chunk_tasks)))]
    /\ UNCHANGED <<settings, transcript_cache, req, llm, fn>>

\* -------------------------------------------------------------- behaviours
Init ==
    /\ settings \in SettingsValues
    /\ transcript_cache = <<>>
    /\ req = [r \in Reqs |-> IdleReq]
    /\ llm = LlmIdle
    /\ fn = FnIdle
    /\ stt = SttIdle

Next ==
    \/ \E r \in Reqs, u \in Urls : Invoke(r, u)
    \/ \E r \in Reqs : CheckCache(r)
    \/ \E r \in Reqs, out \in YtdlpOutcomes : TryYtdlp(r, out)
    \/ \E r \in Reqs, out \in ApiOutcomes : TryApi(r, out)
    \/ \E r \in Reqs, out \in MediaInfoOutcomes : TryMetadata(r, out)
    \/ \E r \in Reqs, out \in DownloadOutcomes : AudioDownload(r, out)
    \/ \E r \in Reqs, out \in SttOutcomes : Transcribe(r, out)

\* concurrent calls of get_transcript_with_fallback sharing the cache
Spec == Init /\ [][Next]_vars

NextRoute ==
    \/ \E r \in Reqs, u \in Urls : StartRoute(r, u)
    \/ \E r \in Reqs : CheckCache(r)
    \/ \E r \in Reqs, out \in YtdlpOutcomes : TryYtdlp(r, out)
    \/ \E r \in Reqs, out \in ApiOutcomes : TryApi(r, out)
    \/ \E r \in Reqs, out \in MediaInfoOutcomes : TryMetadata(r, out)
    \/ \E r \in Reqs, out \in DownloadOutcomes : AudioDownload(r, out)
    \/ \E r \in Reqs, out \in SttOutcomes : Transcribe(r, out)
    \/ \E r \in Reqs, out \in MediaInfoOutcomes : FutureDone(r, out)
    \/ \E r \in Reqs : RouteHandle(r)
    \/ \E r \in Reqs, out \in LlmOutcomes : RouteExtract(r, out)
    \/ \E r \in Reqs : RouteRespond(r)
    \/ \E r \in Reqs : Recycle(r)

\* /api/extract requests, each running the orchestrator and its own
\* metadata future concurrently
SpecRoute == Init /\ [][NextRoute]_vars

NextLLM ==
    \/ \E mr \in 0..MaxRetriesBound, vp \in {None, Some("proj")} : LlmCall(mr, vp)
    \/ \E resp \in ModelResponses : LlmAttempt(resp)
    \/ /\ llm.pc = "raised"
       /\ Apply("extract_recipe", llm.error[1],
                Response(500, FailureDetail(llm.error[1]), None, None))

\* the defaults of Settings; call_llm_for_recipe reads none of these fields
InitLLM ==
    /\ settings = [enable_audio_transcription |-> FALSE, gcp_project_id |-> None]
    /\ transcript_cache = <<>>
    /\ req = [r \in Reqs |-> IdleReq]
    /\ llm = LlmIdle
    /\ fn = FnIdle
    /\ stt = SttIdle

\* one call of call_llm_for_recipe
SpecLLM == InitLLM /\ [][NextLLM]_vars

NextFn ==
    \/ \E raw \in RawRecipes : ValidateRecipe(raw)
    \/ \E evidence \in RawEvidences : ValidateEvidence(evidence)
    \/ \E step \in RawStepTimes : ValidateStep(step)
    \/ \E raw \in RawResponses : NormalizeResponse(raw)
    \/ \E prefix \in Prefixes, object \in JsonObjects, suffix \in Suffixes :
          CleanText(prefix, object, suffix)
    \/ \E object \in JsonObjects :
          \E cut \in 0..MaxCut : cut < Len(object) /\ ParseText(object, cut)
    \/ \E tracks \in TrackLists :
          Apply("_pick_transcript", tracks, pick_transcript(tracks))
    \/ \E raw \in RawRecipes :
          LET validated == model_validate(normalize_llm_output(raw)) IN
          /\ validated # None
          /\ Apply("ensure_no_hallucinated_amounts", validated[1].ingredients,
                   ensure_no_hallucinated_amounts(validated[1].ingredients))
    \/ \E raw \in RawRecipes :
          Apply("call_llm_for_recipe_from_metadata", raw,
                model_validate(normalize_llm_output(raw)))
    \/ \E netloc \in {"www.youtube.com", "m.youtube.com", "example.com"},
          path \in {<<"watch">>, <<"shorts", "a">>, <<"video">>, <<"playlist">>},
          query \in {<<>>, <<<<"v", "a">>>>, <<<<"v", "a">>, <<"t", "42s">>>>,
                     <<<<"list", "x">>, <<"v", "a">>>>, <<<<"list", "x">>>>,
                     <<<<"v", "">>>>} :
          Apply("extract_youtube_video_id", Url(netloc, path, query),
                extract_youtube_video_id(Url(netloc, path, query)))
    \/ \E netloc \in ShortHosts, query \in {<<>>, <<<<"t", "42s">>>>} :
          Apply("extract_youtube_video_id", Url(netloc, <<"a">>, query),
                extract_youtube_video_id(Url(netloc, <<"a">>, query)))
    \/ \E vp \in {None, Some("proj")}, raises \in BOOLEAN,
          text \in {None, Some(<<>>), Some(<<" ">>), Some(<<NL, " ">>),
                     Some(<<"a">>), Some(<<" ", "a", " ", "a", NL>>)} :
          /\ raises => text = None
          /\ Apply("answer_recipe_question",
                   [vertex_project_id |-> vp, raises |-> raises, text |-> text],
                   answer_recipe_question(vp, [raises |-> raises, text |-> text]))

\* no request is in progress; the functions applied read no setting
InitFn == InitLLM

\* the pure functions of the program, each applied to one input
SpecFn == InitFn /\ [][NextFn]_vars

NextStt ==
    \/ \E duration \in Durations, max_audio_seconds \in CeilingValues :
          SttBegin(duration, max_audio_seconds)
    \/ \E out \in ChunkOutcomes : RecognizeWhole(out)
    \/ StartChunk
    \/ \E idx \in 0..MaxChunks - 1, out \in ChunkOutcomes : FinishChunk(idx, out)
    \/ Reassemble

\* one call of transcribe_audio_google
SpecStt == InitFn /\ [][NextStt]_vars

\* a chunk of long audio completes; to keep the completion orders few, only
\* the first MaxChunks chunks return and the recognition of the others raises
PoolFinish ==
    \E idx \in 0..POOL_WORKERS + ExtraChunks - 1, out \in ChunkOutcomes :
       /\ idx >= MaxChunks => out = "raise"
       /\ FinishChunk(idx, out)

\* audio long enough to occupy every worker of the pool
NextPool ==
    \/ \E k \in 0..ExtraChunks :
          SttBegin(CHUNK_SEC * (POOL_WORKERS + k), STT_MAX_AUDIO_SECONDS)
    \/ StartChunk
    \/ PoolFinish
    \/ Reassemble

\* one call of transcribe_audio_google on long audio; a worker that is free
\* takes a waiting task, and a recognition call returns or raises
SpecPool ==
    InitFn /\ [][NextPool]_vars /\ WF_vars(StartChunk) /\ WF_vars(PoolFinish)

\* the external call of the stage the orchestrator is at returns, fails or
\* times out, and the orchestrator handles the outcome
LiveStage ==
    \/ CheckCache(1)
    \/ \E out \in YtdlpOutcomes : TryYtdlp(1, out)
    \/ \E out \in ApiOutcomes : TryApi(1, out)
    \/ \E out \in MediaInfoOutcomes : TryMetadata(1, out)
    \/ \E out \in DownloadOutcomes : AudioDownload(1, out)
    \/ \E out \in SttOutcomes : Transcribe(1, out)

\* generate_content returns or raises and the loop handles the outcome; the
\* JSON responses are those with at most one ingredient without amounts
LiveAttempt ==
    \E resp \in ModelResponses :
       /\ resp.kind = "json" =>
             /\ resp.json[1].ingredients # None
             /\ Len(resp.json[1].ingredients[1]) <= 1
             /\ \A i \in 1..Len(resp.json[1].ingredients[1]) :
                   LET ing == resp.json[1].ingredients[1][i] IN
                   /\ ing.amount = None
                   /\ ing.unit = None
                   /\ ing.suggested_amount = None
                   /\ ing.suggested_unit = None
       /\ LlmAttempt(resp)

\* one call of get_transcript_with_fallback and, once it returned a
\* transcript, one call of call_llm_for_recipe
NextLive ==
    \/ \E u \in Urls : Invoke(1, u)
    \/ LiveStage
    \/ \E mr \in 0..MaxRetriesBound, vp \in {None, Some("proj")} :
          /\ req[1].pc = "returned"
          /\ req[1].result # None
          /\ LlmCall(mr, vp)
    \/ LiveAttempt

\* every external call that was started returns, fails or times out
SpecLive ==
    Init /\ [][NextLive]_vars /\ WF_vars(LiveStage) /\ WF_vars(LiveAttempt)

\* one call of get_transcript_with_fallback, with the calls of
\* get_captions_via_ytdlp and transcribe_audio_google it makes followed
\* from their start to their end
NextTmp ==
    \/ \E u \in Urls : Invoke(1, u)
    \/ CheckCache(1)
    \/ \E out \in YtdlpOutcomes :
          /\ req[1].pc = "ytdlp"
          /\ Apply("get_captions_via_ytdlp", [url |-> req[1].url[1], out |-> out],
                   [text |-> get_captions_via_ytdlp(req[1].url[1], out),
                    temp_dir |-> ytdlp_temp_dir(out)])
    \/ /\ fn.op = "get_captions_via_ytdlp"
       /\ TryYtdlp(1, fn.arg[1].out)
    \/ \E out \in ApiOutcomes : TryApi(1, out)
    \/ \E out \in MediaInfoOutcomes : TryMetadata(1, out)
    \/ \E out \in DownloadOutcomes : AudioDownload(1, out)
    \/ \E duration \in Durations, max_audio_seconds \in CeilingValues :
          /\ req[1].pc = "transcribe"
          /\ SttBegin(duration, max_audio_seconds)
    \/ \E out \in ChunkOutcomes : RecognizeWhole(out)
    \/ StartChunk
    \/ \E idx \in 0..MaxChunks - 1, out \in ChunkOutcomes : FinishChunk(idx, out)
    \/ Reassemble
    \/ /\ stt.pc \in {"returned", "raised"}
       /\ Transcribe(1, IF stt.pc = "raised" THEN "raise"
                        ELSE IF stt.result[1] = <<>> THEN "empty" ELSE "text")

SpecTmp == Init /\ [][NextTmp]_vars

\* ================================================================ claims
\* the sources in the order the chain tries them; download and transcribe
\* are the two calls of the audio source
ChainOrder == <<"ytdlp", "api", "metadata", "download", "transcribe">>

Attempted(r, src) == \E i \in 1..Len(req[r].calls) : req[r].calls[i].src = src

AttemptedAndFailed(r, src) ==
    \E i \in 1..Len(req[r].calls) :
        req[r].calls[i].src = src /\ ~req[r].calls[i].ok

Succeeded(r, src) ==
    \E i \in 1..Len(req[r].calls) :
        req[r].calls[i].src = src /\ req[r].calls[i].ok

\* the audio source was attempted and failed: the download failed, or the
\* file was rejected as too long, or the transcription failed or was empty
AudioFailed(r) ==
    /\ req[r].error # None
    /\ req[r].result = None
    /\ Attempted(r, "download")

\* C1: the sources are attempted in the fixed order captions (yt-dlp, then
\* the captions API), metadata, audio; a source is attempted only after every
\* earlier one failed; none is attempted after one succeeded; and when the
\* captions fail and the metadata has a title the call returns provenance
\* metadata without any audio download, whatever the audio settings are.
FallbackOrder ==
    \A r \in Reqs :
      LET c == req[r].calls IN
        /\ Len(c) <= Len(ChainOrder)
        /\ \A i \in 1..Len(c) : c[i].src = ChainOrder[i]
        /\ \A i \in 1..Len(c) :
              (c[i].ok /\ c[i].src # "download") =>
                 /\ i = Len(c)
                 /\ req[r].pc = "returned"
                 /\ req[r].result # None
        /\ \A i \in 1..Len(c) : \A j \in 1..(i - 1) :
              c[j].src \in {"ytdlp", "api", "metadata"} => ~c[j].ok
        /\ (AttemptedAndFailed(r, "ytdlp") /\ AttemptedAndFailed(r, "api")
              /\ Succeeded(r, "metadata")) =>
                 /\ req[r].result # None
                 /\ req[r].result[1].source = "metadata"
                 /\ ~Attempted(r, "download")
                 /\ ~Attempted(r, "transcribe")

\* C1 witness: with audio enabled and configured, captions failed twice, the
\* metadata fetch succeeded and the call returned provenance metadata
FallbackOrderWitness ==
    \E r \in Reqs :
        /\ AudioConfigured
        /\ req[r].pc = "returned"
        /\ req[r].calls = <<Call("ytdlp", FALSE), Call("api", FALSE),
                            Call("metadata", TRUE)>>
        /\ req[r].result # None
        /\ req[r].result[1].source = "metadata"

AudioTranscriptionFailed ==
    [type |-> "RuntimeError", msg |-> "AUDIO_TRANSCRIPTION_FAILED"]

\* a failed audio attempt raises the distinct AudioTranscriptionFailed error
AudioErrorDistinct ==
    \A r \in Reqs :
        AudioFailed(r) => req[r].error = Some(AudioTranscriptionFailed)

\* a request whose audio attempt failed is not continued from metadata
NoMetadataDowngrade ==
    \A r \in Reqs :
        AudioFailed(r) =>
          /\ req[r].source # Some("metadata")
          /\ req[r].response # None =>
                req[r].response[1].transcript_source # Some("metadata")

\* C5: once audio transcription was attempted, its failure is fatal for the
\* request: the orchestrator raises RuntimeError AUDIO_TRANSCRIPTION_FAILED,
\* and neither it nor the /api/extract route completes the request with a
\* metadata-provenance result.
AudioFailureFatal == AudioErrorDistinct /\ NoMetadataDowngrade

VideoIdOf(r) == extract_youtube_video_id(req[r].url[1])

\* a call that finds its video id in the cache returns the entry at once
CacheHitReturnsEntry ==
    \A r \in Reqs :
        (/\ req[r].pc = "cache"
         /\ req'[r].pc # "cache"
         /\ VideoIdOf(r) \in DOMAIN transcript_cache) =>
           /\ req'[r].pc = "returned"
           /\ req'[r].result = Some(transcript_cache[VideoIdOf(r)])
           /\ req'[r].calls = <<>>

\* an entry of the cache is never removed or replaced by another value
CacheEntryKept ==
    \A v \in DOMAIN transcript_cache :
        /\ v \in DOMAIN transcript_cache'
        /\ transcript_cache'[v] = transcript_cache[v]

\* C6: the cache is keyed by the canonical video id: once a call for video
\* id v succeeded, every later call with a URL of id v returns the cached
\* triple without attempting a source, and the entry for v never changes.
CacheKeyedAndStable == [][CacheHitReturnsEntry /\ CacheEntryKept]_vars

\* C7: two calls for the same video id that both missed the cache write the
\* same value, so the entry does not depend on which write lands last.
ConcurrentWritesIdempotent ==
    \A r, s \in Reqs :
        (/\ r # s
         /\ req[r].url # None /\ req[s].url # None
         /\ VideoIdOf(r) # None /\ VideoIdOf(r) = VideoIdOf(s)
         /\ req[r].calls # <<>> /\ req[s].calls # <<>>
         /\ req[r].result # None /\ req[s].result # None) =>
           /\ req[r].result = req[s].result
           /\ transcript_cache[VideoIdOf(r)] = req[r].result[1]

Failed(i) == llm.log[i] # None

\* C8: the loop retries after a failed attempt and stops at the first
\* attempt whose output validates: no model call follows it; with
\* max_retries = 2, a first call that raises and a second that returns valid
\* JSON give the validated recipe after exactly 2 model calls.
RetryStopsAtFirstValid ==
    /\ llm.calls = Len(llm.log)
    /\ \A i \in 1..Len(llm.log) :
          ~Failed(i) =>
             /\ i = Len(llm.log)
             /\ llm.pc = "returned"
             /\ llm.result # None
    /\ (/\ llm.pc # "idle" /\ llm.vertex_project_id # None
        /\ Len(llm.log) < llm.max_retries
        /\ \A i \in 1..Len(llm.log) : Failed(i)) => llm.pc = "loop"
    /\ (/\ llm.max_retries = 2
        /\ llm.log = <<Some(<<"Exception", "model call failed">>), None>>) =>
          /\ llm.pc = "returned"
          /\ llm.result # None
          /\ llm.calls = 2

\* C8 witness: max_retries = 2, the first call raised, the second returned
\* valid JSON, and the recipe was returned after 2 calls
RetryStopsAtFirstValidWitness ==
    /\ llm.max_retries = 2
    /\ llm.log = <<Some(<<"Exception", "model call failed">>), None>>
    /\ llm.pc = "returned"
    /\ llm.calls = 2
    /\ llm.result # None

\* what RecipeLLMOutput accepts: every ingredient's source is one of the
\* two literals
PassedValidation(recipe) ==
    \A i \in 1..Len(recipe.ingredients) :
        recipe.ingredients[i].source \in {"explicit", "inferred"}

\* C9: at most max_retries model calls are made, all on one model handle;
\* when every attempt failed the call raises the extraction failure, which
\* carries max_retries and the error of the last attempt; it raises that
\* failure only then; and whatever it returns passed validation.
BoundedRetries ==
    /\ llm.calls <= llm.max_retries
    /\ llm.handles <= 1
    /\ llm.calls > 0 => llm.handles = 1
    /\ (/\ llm.pc # "idle" /\ llm.vertex_project_id # None
        /\ Len(llm.log) = llm.max_retries
        /\ \A i \in 1..Len(llm.log) : Failed(i)) =>
          /\ llm.pc = "raised"
          /\ llm.result = None
          /\ llm.error # None
          /\ llm.error[1].type = "RuntimeError"
          /\ llm.error[1].msg = "Failed to extract recipe after N attempts"
          /\ llm.error[1].attempts = llm.max_retries
          /\ llm.error[1].last_error =
                IF llm.log = <<>> THEN None ELSE llm.log[Len(llm.log)]
    /\ (llm.pc = "raised" /\ llm.vertex_project_id # None) =>
          /\ Len(llm.log) = llm.max_retries
          /\ \A i \in 1..Len(llm.log) : Failed(i)
    /\ llm.result # None =>
          /\ llm.pc = "returned"
          /\ PassedValidation(llm.result[1])

\* C9 witness: two attempts failed differently and the failure raised carries
\* the second one's error
BoundedRetriesWitness ==
    /\ llm.pc = "raised"
    /\ llm.max_retries = 2
    /\ llm.calls = 2
    /\ llm.log = <<Some(<<"ValueError", "Empty response from Vertex AI">>),
                   Some(<<"ValidationError", "RecipeLLMOutput">>)>>
    /\ llm.error # None
    /\ llm.error[1].last_error = Some(<<"ValidationError", "RecipeLLMOutput">>)

\* C10: in a recipe that passed validation every ingredient tagged inferred
\* has no amount and no unit, whatever the model output carried.
InferredHasNoAmount ==
    llm.result # None =>
      \A i \in 1..Len(llm.result[1].ingredients) :
          llm.result[1].ingredients[i].source = "inferred" =>
            /\ llm.result[1].ingredients[i].amount = None
            /\ llm.result[1].ingredients[i].unit = None

\* C10 witness: the model tagged an ingredient inferred and gave it an amount
\* and a unit; the returned recipe has it inferred with neither
InferredHasNoAmountWitness ==
    /\ llm.result # None
    /\ llm.last_raw # None
    /\ llm.last_raw[1].ingredients # None
    /\ \E i \in 1..Len(llm.result[1].ingredients) :
          /\ llm.last_raw[1].ingredients[1][i].source = "inferred"
          /\ llm.last_raw[1].ingredients[1][i].amount # None
          /\ llm.last_raw[1].ingredients[1][i].unit # None
          /\ llm.result[1].ingredients[i].source = "inferred"
          /\ llm.result[1].ingredients[i].amount = None
          /\ llm.result[1].ingredients[i].unit = None

\* the ingredients handed to the validator and those of the validated
\* recipe, for an application of model_validate
Validated == fn.op = "model_validate" /\ fn.out[1] # None
IngredientsIn == normalize_llm_output(fn.arg[1]).ingredients
IngredientsOut == fn.out[1][1].ingredients
HallucinatedAmount(ing) ==
    ing.source = "inferred" /\ (ing.amount # None \/ ing.unit # None)

\* an ingredient list whose field types are right is not rejected
TypedIsAccepted ==
    (/\ fn.op = "model_validate"
     /\ \A i \in 1..Len(IngredientsIn) : IngredientTypeOk(IngredientsIn[i])) =>
       /\ fn.out[1] # None
       /\ Len(IngredientsOut) = Len(IngredientsIn)

\* C11: an inferred ingredient carrying an amount and/or a unit does not
\* make validation fail; each value the model supplied ends up in
\* suggested_amount / suggested_unit and amount and unit are cleared, so no
\* model-supplied value is dropped.
DemotedNotDropped ==
    /\ TypedIsAccepted
    /\ Validated =>
         \A i \in 1..Len(IngredientsIn) :
            HallucinatedAmount(IngredientsIn[i]) =>
              /\ IngredientsOut[i].source = "inferred"
              /\ IngredientsOut[i].amount = None
              /\ IngredientsOut[i].unit = None
              /\ IngredientsIn[i].amount # None =>
                    IngredientsOut[i].suggested_amount = IngredientsIn[i].amount
              /\ IngredientsIn[i].unit # None =>
                    IngredientsOut[i].suggested_unit = IngredientsIn[i].unit

\* C11 as amended: the recipe is not rejected and amount and unit are
\* cleared; the amount is copied to suggested_amount only when the model
\* gave no suggested_amount, and the unit to suggested_unit only when it
\* gave no suggested_unit; a suggestion already present is kept.
DemotedUnlessSuggested ==
    /\ TypedIsAccepted
    /\ Validated =>
         \A i \in 1..Len(IngredientsIn) :
            HallucinatedAmount(IngredientsIn[i]) =>
              /\ IngredientsOut[i].source = "inferred"
              /\ IngredientsOut[i].amount = None
              /\ IngredientsOut[i].unit = None
              /\ IngredientsOut[i].suggested_amount =
                    IF IngredientsIn[i].suggested_amount = None
                    THEN IngredientsIn[i].amount
                    ELSE IngredientsIn[i].suggested_amount
              /\ IngredientsOut[i].suggested_unit =
                    IF IngredientsIn[i].suggested_unit = None
                    THEN IngredientsIn[i].unit
                    ELSE IngredientsIn[i].suggested_unit

\* C11 witness: an inferred ingredient with an amount, a unit and a
\* suggested amount of its own was validated; the suggestion was kept and
\* the unit moved
DemotedUnlessSuggestedWitness ==
    /\ Validated
    /\ \E i \in 1..Len(IngredientsIn) :
          /\ IngredientsIn[i].source = "inferred"
          /\ IngredientsIn[i].amount = Some(2)
          /\ IngredientsIn[i].unit = Some("cups")
          /\ IngredientsIn[i].suggested_amount = Some(1)
          /\ IngredientsIn[i].suggested_unit = None
          /\ IngredientsOut[i].amount = None
          /\ IngredientsOut[i].suggested_amount = Some(1)
          /\ IngredientsOut[i].suggested_unit = Some("cups")

\* C12: an ingredient given as explicit with neither amount nor unit is
\* inferred in the validated recipe; an explicit ingredient with an amount
\* or a unit stays explicit.
ExplicitWithoutAmountDemoted ==
    Validated =>
      \A i \in 1..Len(IngredientsIn) :
         IngredientsIn[i].source = "explicit" =>
           IngredientsOut[i].source =
             IF IngredientsIn[i].amount = None /\ IngredientsIn[i].unit = None
             THEN "inferred" ELSE "explicit"

\* C12 witness: an explicit ingredient without amount and unit was validated
\* and came out inferred
ExplicitWithoutAmountDemotedWitness ==
    /\ Validated
    /\ \E i \in 1..Len(IngredientsIn) :
          /\ IngredientsIn[i].source = "explicit"
          /\ IngredientsIn[i].amount = None
          /\ IngredientsIn[i].unit = None
          /\ IngredientsOut[i].source = "inferred"

\* the number a timestamp position holds when the model gave one
GivenSec(field) ==
    IF field # None /\ field[1].kind \in {"num", "numstr"} THEN Some(field[1].n)
    ELSE None

\* an evidence or step dict whose two timestamps are numbers is never
\* rejected
NumbersAccepted(op) ==
    (/\ fn.op = op
     /\ fn.arg[1] # None
     /\ LET d == IF op = "Evidence" THEN fn.arg[1][1] ELSE fn.arg[1] IN
          GivenSec(d.start_sec) # None /\ GivenSec(d.end_sec) # None) =>
       fn.out[1] # None

StepEndAfterStart ==
    /\ NumbersAccepted("Step")
    /\ (fn.op = "Step" /\ fn.out[1] # None) =>
          fn.out[1][1].end_sec >= fn.out[1][1].start_sec

\* C15: on text that already is a valid JSON object, cleaning followed by the
\* parse and repair path gives the same text back, with no repair applied;
\* this for every valid object, also one whose strings hold braces, brackets,
\* a comma before a closer, or //.
RepairIdempotentOnValidJson ==
    (fn.op = "parse" /\ fn.arg[1].cut = 0) =>
       /\ fn.out[1].ok
       /\ fn.out[1].content = fn.arg[1].whole
       /\ fn.out[1].repairs = <<>>

\* C16: a valid JSON object that lost its last N closing braces and brackets
\* is repaired by appending exactly those N closers, innermost first, and
\* the repaired text parses.
TruncationRepaired ==
    (/\ fn.op = "parse"
     /\ fn.arg[1].cut >= 1
     /\ fn.arg[1].cut <= TrailingClosers(fn.arg[1].whole)) =>
       /\ fn.out[1].ok
       /\ fn.out[1].content =
            strip(fn.arg[1].text)
              \o SubSeq(fn.arg[1].whole,
                        Len(fn.arg[1].whole) - fn.arg[1].cut + 1,
                        Len(fn.arg[1].whole))

\* C17: from text made of an optional fence or prose, one JSON object and an
\* optional closing fence or prose, _clean_model_text returns exactly the
\* object.
CleanReturnsObject ==
    fn.op = "clean" => fn.out[1] = fn.arg[1].whole

\* the text after every repair was applied in turn: bracket completion when
\* opens exceed closes, then trailing-comma removal
AllRepairs(content) ==
    remove_trailing_commas(
        IF appears_truncated(content) THEN content \o completion(content)
        ELSE content)

\* C18: when the first parse fails, bracket completion is applied if opens
\* exceed closes, then trailing-comma removal if parsing still fails; the
\* attempt fails only if the text does not parse after all of them.
FailsOnlyAfterAllRepairs ==
    (fn.op = "parse" /\ ~fn.out[1].ok
       /\ clean_model_text(fn.arg[1].text) # <<>>) =>
       ~json_loads_ok(AllRepairs(clean_model_text(fn.arg[1].text)))

\* the first of the given keys that is present, or None
FirstPresent(fields) ==
    LET I == {i \in 1..Len(fields) : fields[i] # None} IN
    IF I = {} THEN None ELSE fields[CHOOSE i \in I : \A j \in I : i <= j]

\* C19: _normalize_llm_output gives title, name and text the value of the
\* canonical key when it is present and otherwise that of the alternate key
\* (recipe_name; item; instruction, then step); its output always has
\* ingredients, steps, missing_info and notes, empty when omitted; so a
\* response that omits a top-level list, but names its ingredients and steps,
\* passes validation.
NormalizeFieldNames ==
    fn.op = "normalize" =>
      LET raw == fn.arg[1]
          out == fn.out[1].normalized
      IN /\ out.title =
              IF FirstPresent(<<raw.title, raw.recipe_name>>) = None
              THEN Some("Untitled Recipe")
              ELSE FirstPresent(<<raw.title, raw.recipe_name>>)
         /\ out.ingredients # None /\ out.steps # None
         /\ out.missing_info # None /\ out.notes # None
         /\ raw.ingredients = None => out.ingredients = Some(<<>>)
         /\ raw.steps = None => out.steps = Some(<<>>)
         /\ out.missing_info =
              IF raw.missing_info = None THEN Some(<<>>) ELSE raw.missing_info
         /\ out.notes = IF raw.notes = None THEN Some(<<>>) ELSE raw.notes
         /\ raw.ingredients # None =>
              /\ Len(out.ingredients[1]) = Len(raw.ingredients[1])
              /\ \A i \in 1..Len(raw.ingredients[1]) :
                    out.ingredients[1][i].name =
                      FirstPresent(<<raw.ingredients[1][i].name,
                                     raw.ingredients[1][i].item>>)
         /\ raw.steps # None =>
              /\ Len(out.steps[1]) = Len(raw.steps[1])
              /\ \A i \in 1..Len(raw.steps[1]) :
                    out.steps[1][i].text =
                      FirstPresent(<<raw.steps[1][i].text,
                                     raw.steps[1][i].instruction,
                                     raw.steps[1][i].step>>)
         /\ (/\ raw.ingredients # None =>
                  \A i \in 1..Len(raw.ingredients[1]) :
                     raw.ingredients[1][i] # [name |-> None, item |-> None]
             /\ raw.steps # None =>
                  \A i \in 1..Len(raw.steps[1]) :
                     raw.steps[1][i] #
                       [text |-> None, instruction |-> None, step |-> None])
              => fn.out[1].valid

\* C19 witness: a response with title and recipe_name, an ingredient with
\* item only, and no steps, missing_info or notes was normalised: the title
\* is kept, the item is the name, the lists are empty, validation passes
NormalizeFieldNamesWitness ==
    /\ fn.op = "normalize"
    /\ fn.arg[1].title = Some("T") /\ fn.arg[1].recipe_name = Some("R")
    /\ fn.arg[1].ingredients = Some(<<[name |-> None, item |-> Some("I")]>>)
    /\ fn.arg[1].steps = None /\ fn.arg[1].missing_info = None
    /\ fn.arg[1].notes = None
    /\ fn.out[1].normalized.title = Some("T")
    /\ fn.out[1].normalized.ingredients[1][1].name = Some("I")
    /\ fn.out[1].normalized.steps = Some(<<>>)
    /\ fn.out[1].normalized.notes = Some(<<>>)
    /\ fn.out[1].valid

\* C20: for chunked audio the transcript returned is the chunk transcripts
\* joined in ascending chunk index, whatever the order in which the chunk
\* transcriptions completed.
ReassembledInIndexOrder ==
    (stt.pc = "returned" /\ stt.chunk_tasks # <<>>) =>
       /\ \A i, j \in 1..Len(stt.result[1]) :
             i < j => stt.result[1][i] < stt.result[1][j]
       /\ {stt.result[1][i] : i \in 1..Len(stt.result[1])} =
             {stt.parts_dict[k].idx :
                k \in {m \in 1..Len(stt.parts_dict) : stt.parts_dict[m].text # <<>>}}

\* C20 witness: a later chunk completed before an earlier one, and the
\* transcript returned has the two in index order
ReassembledInIndexOrderWitness ==
    /\ stt.pc = "returned"
    /\ Len(stt.parts_dict) >= 2
    /\ stt.parts_dict[1].idx > stt.parts_dict[2].idx
    /\ stt.parts_dict[1].text # <<>>
    /\ stt.parts_dict[2].text # <<>>
    /\ Len(stt.result[1]) >= 2
    /\ stt.result[1][1] < stt.result[1][2]

\* the indexes of the chunk tasks
ChunkIndexes == {stt.chunk_tasks[k].idx : k \in 1..Len(stt.chunk_tasks)}

\* the indexes of the chunks whose transcription returned, and returned text
Returned == {stt.parts_dict[k].idx : k \in 1..Len(stt.parts_dict)}
ReturnedText ==
    {stt.parts_dict[k].idx :
       k \in {m \in 1..Len(stt.parts_dict) : stt.parts_dict[m].text # <<>>}}

\* C21: when chunk transcriptions raise, transcribe_audio_google does not
\* raise, waits for every other chunk, and returns the transcripts of exactly
\* the chunks that succeeded, in index order.
FailedChunksOmitted ==
    (stt.chunk_tasks # <<>> /\ stt.failed # {}) =>
       /\ stt.pc # "raised"
       /\ stt.pc = "returned" =>
            /\ Returned = ChunkIndexes \ stt.failed
            /\ \A i \in 1..Len(stt.result[1]) :
                  /\ stt.result[1][i] \in ReturnedText
                  /\ \A j \in 1..Len(stt.result[1]) :
                        i < j => stt.result[1][i] < stt.result[1][j]
            /\ \A idx \in ReturnedText :
                  \E i \in 1..Len(stt.result[1]) : stt.result[1][i] = idx

\* C21 witness: a chunk failed, a later chunk succeeded, and the call returned
FailedChunksOmittedWitness ==
    /\ stt.pc = "returned"
    /\ \E f \in stt.failed : \E i \in 1..Len(stt.result[1]) : f < stt.result[1][i]
    /\ \E f \in stt.failed : \E i \in 1..Len(stt.result[1]) : f > stt.result[1][i]

\* C22: at most 6 chunk transcriptions are in progress at any time, the pool
\* has min(6, number of chunks) workers, and every chunk task is eventually
\* started, exactly once.
WorkersBounded ==
    /\ [](stt.pc = "chunks" =>
            /\ Cardinality(stt.running) <= 6
            /\ stt.max_workers = Min2(6, Len(stt.chunk_tasks))
            /\ Cardinality(stt.running) + Cardinality(stt.failed)
                  + Len(stt.parts_dict) = stt.started
            /\ stt.running \cup stt.failed \cup Returned =
                  {stt.chunk_tasks[k].idx : k \in 1..stt.started})
    /\ (stt.pc = "chunks") ~> (stt.started = Len(stt.chunk_tasks))

\* C22 witness: six transcriptions are in progress and a task is waiting
WorkersBoundedWitness ==
    /\ stt.pc = "chunks"
    /\ Cardinality(stt.running) = 6
    /\ stt.started < Len(stt.chunk_tasks)

CaptionTrackPreference ==
    fn.op = "_pick_transcript" =>
       LET tracks == fn.arg[1]
           chosen == fn.out[1]
           tiers == << <<"manual", "en-US">>, <<"manual", "en">>,
                       <<"generated", "en-US">>, <<"generated", "en">> >>
           best == CHOOSE i \in 1..4 :
                      tiers[i] \in tracks /\ \A j \in 1..(i - 1) : tiers[j] \notin tracks
       IN  /\ tracks # {} => (chosen # None /\ chosen[1] \in tracks)
           /\ (\E i \in 1..4 : tiers[i] \in tracks) => chosen = Some(tiers[best])

\* a title get_video_metadata did not read from the media-info output:
\* the empty title, and the default it gives when the title key is missing
NoTitle == {"", "Untitled"}

\* C25: metadata whose title is missing or empty is never used: the
\* orchestrator neither returns nor caches a metadata result made from it,
\* and the route generates no recipe from it.
UntitledMetadataUnused ==
    /\ \A r \in Reqs :
          /\ (req[r].result # None /\ req[r].result[1].source = "metadata")
                => req[r].result[1].text[2] \notin NoTitle
          /\ (req[r].recipe # None /\ req[r].recipe[1][1] = "recipe_from_metadata")
                => req[r].recipe[1][2] \notin NoTitle
    /\ \A v \in DOMAIN transcript_cache :
          transcript_cache[v].source = "metadata"
             => transcript_cache[v].text[2] \notin NoTitle

\* C26: within one call of get_transcript_with_fallback no source is invoked
\* twice, and a source is invoked only after the sources invoked before it.
SourcesInvokedOnce ==
    \A r \in Reqs : \A i, j \in 1..Len(req[r].calls) :
       i < j =>
          /\ req[r].calls[i].src # req[r].calls[j].src
          /\ \E m, n \in 1..Len(ChainOrder) :
                /\ m < n
                /\ ChainOrder[m] = req[r].calls[i].src
                /\ ChainOrder[n] = req[r].calls[j].src

\* C26 witness: every source was invoked, the captions, the metadata and the
\* transcription of the downloaded audio failed, and the call raised
SourcesInvokedOnceWitness ==
    \E r \in Reqs :
       /\ req[r].pc = "returned"
       /\ req[r].error # None
       /\ Len(req[r].calls) = Len(ChainOrder)
       /\ \A i \in 1..Len(ChainOrder) :
             /\ req[r].calls[i].src = ChainOrder[i]
             /\ req[r].calls[i].ok <=> ChainOrder[i] = "download"

\* the metadata fetch of a request is started with the request, the
\* orchestrator is over when the response is produced, and after
\* NO_TRANSCRIPT_AVAILABLE the route turns to the metadata it fetched
\* concurrently: 400 without a title, a recipe from the metadata with one
MetadataFallbackOfRoute(r) ==
    /\ req[r].pc # "idle" => req[r].fut.started
    /\ req[r].response # None => (req[r].result # None \/ req[r].error # None)
    /\ (req[r].response # None /\ req[r].error # None) =>
          /\ req[r].fut.done
          /\ ~HasTitle(req[r].fut.value) <=> req[r].response[1].status = 400
          /\ req[r].response[1].status = 200 =>
                /\ req[r].response[1].transcript_source = Some("metadata")
                /\ req[r].recipe[1][1] = "recipe_from_metadata"
                /\ req[r].recipe[1][2] = req[r].fut.value[1].title[1]

MetadataRecipeAllInferred ==
    (fn.op = "call_llm_for_recipe_from_metadata" /\ fn.out[1] # None) =>
       \A i \in 1..Len(fn.out[1][1].ingredients) :
          /\ fn.out[1][1].ingredients[i].source = "inferred"
          /\ fn.out[1][1].ingredients[i].amount = None
          /\ fn.out[1][1].ingredients[i].unit = None

\* C29: without VERTEX_PROJECT_ID call_llm_for_recipe raises
\* "VERTEX_PROJECT_ID is not set" before any model call: no model handle is
\* taken, the retry loop is not entered and no attempt is used.
MissingCredentialFailsFast ==
    (llm.pc # "idle" /\ llm.vertex_project_id = None) =>
       /\ llm.pc = "raised"
       /\ llm.error # None
       /\ llm.error[1].type = "RuntimeError"
       /\ llm.error[1].msg = "VERTEX_PROJECT_ID is not set"
       /\ llm.calls = 0
       /\ llm.handles = 0
       /\ llm.attempt = 0
       /\ llm.log = <<>>

\* C29 witness: a call with two retries allowed and no project id has raised
MissingCredentialFailsFastWitness ==
    /\ llm.pc = "raised"
    /\ llm.vertex_project_id = None
    /\ llm.max_retries = 2
    /\ llm.error[1].msg = "VERTEX_PROJECT_ID is not set"
    /\ llm.calls = 0

\* C30: when the recipe extraction of a request ends without a recipe, the
\* response is HTTP 500 with the detail "Failed to extract recipe...", and
\* a success response always carries a recipe.
ExtractionFailureIs500 ==
    [][\A r \in Reqs :
         /\ (req[r].pc = "extract" /\ req'[r].pc # "extract" /\ req'[r].recipe = None)
               => /\ req'[r].response # None
                  /\ req'[r].response[1].status = 500
                  /\ req'[r].response[1].detail[1] = "Failed to extract recipe"
         /\ (req'[r].response # None /\ req'[r].response[1].status = 200)
               => req'[r].recipe # None]_vars

\* C30 witness: the extraction from a caption transcript failed after its
\* attempts and the request was answered with the 500
ExtractionFailureIs500Witness ==
    \E r \in Reqs :
       /\ req[r].source = Some("captions")
       /\ req[r].recipe = None
       /\ req[r].response # None
       /\ req[r].response[1].status = 500
       /\ req[r].response[1].detail = <<"Failed to extract recipe", "after attempts">>

\* C31: the error response of a failed extraction does not contain the text
\* of the underlying error, the one the last attempt ended with.
UnderlyingErrorHidden ==
    (fn.op = "extract_recipe" /\ fn.arg[1].last_error # None) =>
       \A i \in 1..Len(fn.out[1].detail) :
          fn.out[1].detail[i] # fn.arg[1].last_error[1][2]

\* C32: with Vertex AI configured, answer_recipe_question raises exactly when
\* the model call raised; a response whose text is missing, empty or only
\* whitespace gives the fixed message, and any other text is returned
\* stripped.
EmptyAnswerIsSoftFailure ==
    (fn.op = "answer_recipe_question" /\ fn.arg[1].vertex_project_id # None) =>
       LET text == IF fn.arg[1].text = None THEN <<>> ELSE fn.arg[1].text[1]
           blank == \A i \in 1..Len(text) : IsSpace(text[i])
       IN  /\ fn.out[1].raised # None <=> fn.arg[1].raises
           /\ (~fn.arg[1].raises /\ blank) =>
                 fn.out[1].answer = Some(<<"I couldn't generate an answer.">>)
           /\ (~fn.arg[1].raises /\ ~blank) =>
                 /\ fn.out[1].answer = Some(strip(text))
                 /\ fn.out[1].answer[1] # <<>>

\* C32 witness: the model answered with whitespace only and the fixed message
\* was returned
EmptyAnswerIsSoftFailureWitness ==
    /\ fn.op = "answer_recipe_question"
    /\ fn.arg[1].vertex_project_id # None
    /\ fn.arg[1].text = Some(<<NL, " ">>)
    /\ fn.out[1].raised = None
    /\ fn.out[1].answer = Some(<<"I couldn't generate an answer.">>)

\* C33: the three URL shapes of video a (watch?v=a with any other query
\* parameters, youtu.be/a, /shorts/a) give the id a, and a URL of none of
\* these shapes gives None.
CanonicalVideoId ==
    fn.op = "extract_youtube_video_id" =>
       LET url == fn.arg[1]
           watch == /\ url.path = <<"watch">>
                    /\ \E i \in 1..Len(url.query) : url.query[i] = <<"v", "a">>
           short == url.netloc \in ShortHosts /\ url.path = <<"a">>
           shorts == url.path = <<"shorts", "a">>
       IN  /\ (url.netloc \in YoutubeHosts /\ (watch \/ shorts)) => fn.out[1] = <<"a">>
           /\ short => fn.out[1] = <<"a">>
           /\ ~(watch \/ short \/ shorts) => fn.out[1] = None

\* C34: no transcript returned or cached is empty; a captions run whose text
\* is empty counts as a failed source, and so does a transcription that
\* returned nothing, after which the call raises and caches nothing.
NoEmptyTranscript ==
    /\ \A r \in Reqs : req[r].result # None => req[r].result[1].text # <<>>
    /\ \A v \in DOMAIN transcript_cache : transcript_cache[v].text # <<>>
    /\ (fn.op = "get_captions_via_ytdlp" /\ fn.arg[1].out = "empty_vtt"
          /\ req[1].calls # <<>>) => req[1].calls[1] = Call("ytdlp", FALSE)
    /\ (stt.pc = "returned" /\ stt.result[1] = <<>> /\ req[1].pc = "returned") =>
          /\ req[1].result = None
          /\ req[1].error = Some(NoTranscriptAvailable)
          /\ extract_youtube_video_id(req[1].url[1]) \notin DOMAIN transcript_cache

\* C34 witness: the captions file held no text, and the chunked transcription
\* of the audio returned nothing; the call raised
NoEmptyTranscriptWitness ==
    /\ fn.op = "get_captions_via_ytdlp"
    /\ fn.arg[1].out = "empty_vtt"
    /\ stt.pc = "returned"
    /\ stt.chunk_tasks # <<>>
    /\ stt.result[1] = <<>>
    /\ req[1].pc = "returned"
    /\ req[1].error # None

\* C35 as stated: audio whose duration exceeds the ceiling never reaches the
\* transcription service, whether the duration was estimated from the file
\* size or measured on the converted file.
OverlongAudioRejected ==
    /\ (req[1].pc = "returned" /\ req[1].calls # <<>>
          /\ req[1].calls[Len(req[1].calls)] = Call("download", TRUE)) =>
          stt.pc = "idle" /\ req[1].result = None
    /\ stt.pc # "idle" => stt.duration <= stt.max_audio_seconds

\* C35: audio whose estimated duration exceeds the ceiling is rejected before
\* the transcription is called and the call fails; audio whose measured
\* duration exceeds the ceiling is transcribed with its duration capped to
\* the ceiling: above the length of a single call the chunks end at the
\* ceiling, and at or below it the file goes to a single call.
OverlongAudioCapped ==
    /\ (req[1].pc = "returned" /\ req[1].calls # <<>>
          /\ req[1].calls[Len(req[1].calls)] = Call("download", TRUE)) =>
          /\ stt.pc = "idle"
          /\ req[1].result = None
          /\ req[1].error = Some(NoTranscriptAvailable)
    /\ (stt.pc # "idle" /\ stt.duration > stt.max_audio_seconds) =>
          /\ stt.total_sec = stt.max_audio_seconds
          /\ IF stt.max_audio_seconds > SHORT_SEC
             THEN /\ stt.chunk_tasks # <<>>
                  /\ \A i \in 1..Len(stt.chunk_tasks) :
                        stt.chunk_tasks[i].start + stt.chunk_tasks[i].dur
                           <= stt.max_audio_seconds
                  /\ LET last == stt.chunk_tasks[Len(stt.chunk_tasks)] IN
                     last.start + last.dur = stt.max_audio_seconds
             ELSE stt.chunk_tasks = <<>>

\* C35 witness: audio longer than the ceiling was cut into chunks up to the
\* ceiling, transcribed, and returned as the transcript of the call
OverlongAudioCappedWitness ==
    /\ stt.pc = "returned"
    /\ stt.duration > stt.max_audio_seconds
    /\ stt.max_audio_seconds > SHORT_SEC
    /\ stt.result[1] # <<>>
    /\ req[1].pc = "returned"
    /\ req[1].result # None
    /\ req[1].result[1].source = "audio"

\* C36: audio longer than 60 s after the cap is cut into ceil(T/55)
\* contiguous chunks from 0 to T with indices from 0 in start order, all of
\* 55 s but possibly the last, which is shorter; the synchronous recognize
\* is called only on a chunk shorter than 55 s; audio of at most 60 s has no
\* chunks and goes to one call.
ChunksPartition ==
    stt.pc # "idle" =>
       IF stt.total_sec > SHORT_SEC
       THEN LET c == stt.chunk_tasks
                k == Len(c)
            IN  /\ stt.pc # "single"
                /\ k = (stt.total_sec + CHUNK_SEC - 1) \div CHUNK_SEC
                /\ c[1].start = 0
                /\ c[k].start + c[k].dur = stt.total_sec
                /\ \A i \in 1..k :
                      /\ c[i].idx = i - 1
                      /\ c[i].dur > 0
                      /\ c[i].dur <= CHUNK_SEC
                      /\ i < k => /\ c[i].dur = CHUNK_SEC
                                  /\ c[i + 1].start = c[i].start + c[i].dur
                /\ \A call \in stt.calls :
                      /\ call[1] \in 0..k - 1
                      /\ call[2] = "recognize" => c[call[1] + 1].dur < CHUNK_SEC
       ELSE /\ stt.chunk_tasks = <<>>
            /\ stt.pc \in {"single", "returned", "raised"}
            /\ stt.calls \subseteq {<<0, "long_running_recognize">>}

\* C36 witness: audio of 111 s gave two chunks of 55 s and one of 1 s, the
\* last one recognised synchronously, and the call returned
ChunksPartitionWitness ==
    /\ stt.pc = "returned"
    /\ stt.total_sec = 2 * CHUNK_SEC + 1
    /\ Len(stt.chunk_tasks) = 3
    /\ stt.calls = {<<0, "long_running_recognize">>, <<1, "long_running_recognize">>,
                    <<2, "recognize">>}

\* C37: a step that changes the transcript cache is the successful return of
\* a call whose URL has a video id, and it sets the entry of that id to the
\* triple the call returns and leaves the other entries alone; the step in
\* which a call fails leaves the cache unchanged; a call whose URL has no
\* video id neither returns from the cache nor changes it.
CacheFrameStep ==
    /\ transcript_cache' # transcript_cache =>
          \E r \in Reqs :
             LET video_id == extract_youtube_video_id(req[r].url[1]) IN
             /\ req[r].pc \notin {"idle", "cache", "returned"}
             /\ req'[r].pc = "returned"
             /\ req'[r].error = None
             /\ req'[r].result # None
             /\ video_id # None
             /\ transcript_cache' =
                   [v \in DOMAIN transcript_cache \cup {video_id} |->
                      IF v = video_id THEN req'[r].result[1]
                      ELSE transcript_cache[v]]
    /\ \A r \in Reqs :
          (req[r].error = None /\ req'[r].error # None) =>
             transcript_cache' = transcript_cache
    /\ \A r \in Reqs :
          (req[r].url # None /\ req'[r] # req[r]
             /\ extract_youtube_video_id(req[r].url[1]) = None) =>
             /\ transcript_cache' = transcript_cache
             /\ req[r].pc = "cache" => req'[r].pc = "ytdlp"

\* C37: every step of the concurrent calls is such a step
CacheFrame == [][CacheFrameStep]_vars

\* C37 witness: one call returned captions for a video id and cached them,
\* another returned a transcript for a URL without a video id, which is not
\* in the cache
CacheFrameWitness ==
    /\ req[1].pc = "returned"
    /\ req[1].calls # <<>>
    /\ req[1].result # None
    /\ extract_youtube_video_id(req[1].url[1]) # None
    /\ req[2].pc = "returned"
    /\ req[2].result # None
    /\ extract_youtube_video_id(req[2].url[1]) = None
    /\ DOMAIN transcript_cache = {extract_youtube_video_id(req[1].url[1])}
    /\ transcript_cache[extract_youtube_video_id(req[1].url[1])] = req[1].result[1]

\* C38: a request whose transcript source is metadata while the metadata
\* awaited by the route has no title is answered with HTTP 400 "Could not
\* fetch video metadata for recipe generation", and no recipe is generated.
UntitledMetadataIs400 ==
    \A r \in Reqs :
       (req[r].pc = "done" /\ req[r].source = Some("metadata")
          /\ ~HasTitle(req[r].fut.value)) =>
          /\ req[r].recipe = None
          /\ req[r].response # None
          /\ req[r].response[1].status = 400
          /\ req[r].response[1].detail
                = <<"Could not fetch video metadata for recipe generation">>

\* C39: the ingredient pass applied to the ingredients of a validated recipe
\* returns them as they are: no source, amount, unit, suggested amount or
\* suggested unit changes.
EnforcementIdempotent ==
    fn.op = "ensure_no_hallucinated_amounts" =>
       /\ Len(fn.out[1]) = Len(fn.arg[1])
       /\ \A i \in 1..Len(fn.arg[1]) :
             /\ fn.out[1][i].source = fn.arg[1][i].source
             /\ fn.out[1][i].amount = fn.arg[1][i].amount
             /\ fn.out[1][i].unit = fn.arg[1][i].unit
             /\ fn.out[1][i].suggested_amount = fn.arg[1][i].suggested_amount
             /\ fn.out[1][i].suggested_unit = fn.arg[1][i].suggested_unit

\* C39 witness: an ingredient whose amount and unit the validation had moved
\* to the suggested fields went through the pass again
EnforcementIdempotentWitness ==
    /\ fn.op = "ensure_no_hallucinated_amounts"
    /\ fn.arg[1] # <<>>
    /\ fn.arg[1][1].source = "inferred"
    /\ fn.arg[1][1].suggested_amount = Some(2)
    /\ fn.arg[1][1].suggested_unit = Some("cups")
    /\ fn.out[1] = fn.arg[1]

\* a source that failed or timed out is followed by the next source of the
\* chain, or by NO_TRANSCRIPT_AVAILABLE when none is left; a model call that
\* failed or timed out is followed by the next attempt, or by the
\* RuntimeError when none is left
FailureProceeds ==
    /\ (req[1].calls # <<>> /\ ~req[1].calls[Len(req[1].calls)].ok) =>
          LET src == req[1].calls[Len(req[1].calls)].src
              raised == /\ req[1].pc = "returned"
                        /\ req[1].result = None
                        /\ req[1].error = Some(NoTranscriptAvailable)
          IN  CASE src = "ytdlp" -> req[1].pc = "api"
                [] src = "api" -> req[1].pc = "metadata"
                [] src = "metadata" ->
                      IF settings.enable_audio_transcription
                            /\ settings.gcp_project_id # None
                      THEN req[1].pc = "download"
                      ELSE raised
                [] OTHER -> raised
    /\ llm.pc = "loop" =>
          /\ llm.attempt = Len(llm.log) + 1
          /\ llm.attempt <= llm.max_retries
          /\ \A i \in 1..Len(llm.log) : llm.log[i] # None
    /\ (llm.pc = "raised" /\ llm.log # <<>>) =>
          /\ Len(llm.log) = llm.max_retries
          /\ \A i \in 1..Len(llm.log) : llm.log[i] # None
          /\ llm.result = None

\* C40: when every external call returns, fails or times out, a call of
\* get_transcript_with_fallback that has started ends with a transcript or
\* an error and a call of call_llm_for_recipe that entered its loop ends
\* with a recipe or an error; a failed or timed-out stage is followed by the
\* next source, and a failed attempt by the next attempt.
CallsTerminate ==
    /\ []FailureProceeds
    /\ (req[1].pc \notin {"idle", "returned"})
          ~> (req[1].pc = "returned"
                /\ (req[1].result # None \/ req[1].error # None))
    /\ (llm.pc = "loop")
          ~> (llm.pc \in {"returned", "raised"}
                /\ (llm.result # None \/ llm.error # None))

\* C40 witness: yt-dlp timed out, a later source gave the transcript, and the
\* recipe extraction ended with the RuntimeError after a model call that
\* timed out and another failed attempt
CallsTerminateWitness ==
    /\ req[1].pc = "returned"
    /\ req[1].calls[1] = Call("ytdlp", FALSE)
    /\ req[1].result # None
    /\ llm.pc = "raised"
    /\ llm.max_retries >= 2
    /\ Len(llm.log) = llm.max_retries
    /\ llm.log[1] = Some(<<"Exception", "model call failed">>)

====
